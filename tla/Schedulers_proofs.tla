--------------------------- MODULE Schedulers_proofs ---------------------------
(*******************************************************************************)
(* The gate of the exports (EncodeGate), the pool of detection daemons         *)
(* (DetectPool) and the queue of preview encodes (ProxyQueue).                 *)
(*                                                                             *)
(* The slots of the gate are exactly the encodes, and none is free while a     *)
(* clip waits: for any exports, limits and clips, whichever fail.              *)
(*                                                                             *)
(* drain() wakes as many clips as the limits allow: DrainKeepsSlots is the     *)
(* heart of the proof, and uses that no limit is above DEFAULT_LIMIT.  That    *)
(* a clip never waits or encodes twice follows from the names they carry:      *)
(* a worker takes the clips in order, and the concatenation is asked for       *)
(* once, when no clip of its export is left.                                   *)
(*                                                                             *)
(* A daemon serves its holder because who is past the queue holds a daemon     *)
(* nobody else holds (HolderInv), who waits is in the queue once (QueueInv)    *)
(* and what a process works on or has answered is the request that is          *)
(* pending (ProcessInv).                                                       *)
(*                                                                             *)
(* The two lists of preview encodes are one line, in which proxyPump goes as   *)
(* far as there is room (ReachIs): what it passes has started or was under a   *)
(* mark, and if anybody is left the room is full (PumpServes).  A mark on a    *)
(* request under way was set for it (MarksInv).                                *)
(*******************************************************************************)
EXTENDS EncodeGate, DetectPool, ProxyQueue, FiniteSetTheorems, SequenceTheorems,
        WellFoundedInduction, TLAPS

Busy == encoding \cup WaitingClips

GateTypes ==
  /\ registered \subseteq GateJobs
  /\ gateActive \in Nat
  /\ waiters \in Seq(Slots)
  /\ encoding \subseteq Slots
  /\ IsFiniteSet(encoding)
  /\ phase \in [GateJobs -> {"clips", "joining", "concat", "ended"}]
  /\ nextClip \in [GateJobs -> Nat]

\* The names of the clips that wait or are encoded.
SlotsAreNamed ==
  /\ \A j \in GateJobs : nextClip[j] \in 1 .. ClipCount[j] + 1
  /\ \A j \in GateJobs : phase[j] \in {"joining", "concat"} => nextClip[j] = ClipCount[j] + 1
  /\ \A s \in Busy :
       IF phase[s[1]] = "concat" THEN s = Concat(s[1])
       ELSE phase[s[1]] # "joining" /\ s[2] < nextClip[s[1]]

GateInv == GateTypes /\ SlotsAreExact /\ SlotsAreNamed

LEMMA SlotShape ==
  ASSUME NEW s \in Slots
  PROVE  s[1] \in GateJobs /\ s[2] \in 1 .. ClipCount[s[1]] + 1 /\ s = <<s[1], s[2]>>
  BY DEF Slots

LEMMA SlotIn ==
  ASSUME NEW j \in GateJobs, NEW c \in 1 .. ClipCount[j] + 1
  PROVE  <<j, c>> \in Slots
<1>1. <<j, c>> \in {j} \X (1 .. ClipCount[j] + 1)
  OBVIOUS
<1> QED BY <1>1 DEF Slots

\* There is a number of clips to wake, and Woken is one.
LEMMA WokenIsRight ==
  ASSUME NEW R, NEW a \in Nat, NEW w \in Seq(Slots)
  PROVE  /\ Woken(R, a, w) \in 0 .. DEFAULT_LIMIT
         /\ Woken(R, a, w) <= Len(w)
         /\ Woken(R, a, w) = Len(w) \/ ~ HasRoom(R, a + Woken(R, a, w))
<1> DEFINE F(i) == HasRoom(R, a + i)
           P(k) == /\ k <= Len(w)
                   /\ \A i \in 0 .. k - 1 : F(i)
                   /\ k = Len(w) \/ ~ F(k)
           Upto(k) == Len(w) > k /\ \A i \in 0 .. k : F(i)
<1>0. Len(w) \in Nat
  OBVIOUS
<1>1. ~ F(4)
  BY DEF HasRoom, DEFAULT_LIMIT
<1>2. \E k \in 0 .. 4 : P(k)
  <2> HIDE DEF F
  <2>1. P(0) \/ Upto(0)
    <3>1. \A i \in 0 .. 0 : i = 0
      OBVIOUS
    <3> QED BY <1>0, <3>1
  <2>2. ASSUME NEW k \in 0 .. 3, Upto(k)
        PROVE  P(k + 1) \/ Upto(k + 1)
    <3>1. k + 1 - 1 = k /\ k + 1 <= Len(w)
      BY <1>0, <2>2
    <3>2. CASE k + 1 = Len(w) \/ ~ F(k + 1)
      BY <2>2, <3>1, <3>2
    <3>3. CASE k + 1 # Len(w) /\ F(k + 1)
      <4>1. \A i \in 0 .. k + 1 : i \in 0 .. k \/ i = k + 1
        OBVIOUS
      <4> QED BY <1>0, <2>2, <3>1, <3>3, <4>1
    <3> QED BY <3>2, <3>3
  <2>3. ~ Upto(4)
    BY <1>1
  <2> HIDE DEF P, Upto
  <2>4. Upto(0) => P(1) \/ P(2) \/ P(3) \/ P(4)
    <3>1. Upto(0) => P(1) \/ Upto(1)
      BY <2>2
    <3>2. Upto(1) => P(2) \/ Upto(2)
      BY <2>2
    <3>3. Upto(2) => P(3) \/ Upto(3)
      BY <2>2
    <3>4. Upto(3) => P(4) \/ Upto(4)
      BY <2>2
    <3> QED BY <2>3, <3>1, <3>2, <3>3, <3>4
  <2> QED BY <2>1, <2>4
<1> QED BY <1>2 DEF Woken, DEFAULT_LIMIT

\* The first k of clips that wait once each are k clips.
LEMMA FirstsAreCounted ==
  ASSUME NEW w \in Seq(Slots), NEW k \in 0 .. Len(w),
         \A m, n \in DOMAIN w : w[m] = w[n] => m = n
  PROVE  /\ IsFiniteSet({w[i] : i \in 1 .. k})
         /\ Cardinality({w[i] : i \in 1 .. k}) = k
<1> DEFINE T == {w[i] : i \in 1 .. k}
           f == [i \in 1 .. k |-> w[i]]
<1>0. Len(w) \in Nat /\ DOMAIN w = 1 .. Len(w)
  OBVIOUS
<1>1. f \in Bijection(1 .. k, T)
  BY <1>0 DEF Bijection, Injection, Surjection, IsInjective
<1>2. IsFiniteSet(1 .. k) /\ Cardinality(1 .. k) = k
  BY <1>0, FS_Interval
<1>3. ExistsBijection(1 .. k, T)
  BY <1>1 DEF ExistsBijection
<1> HIDE DEF T
<1>4. IsFiniteSet(T) /\ Cardinality(T) = Cardinality(1 .. k)
  BY <1>2, <1>3, FS_Bijection
<1> QED BY <1>2, <1>4 DEF T

\* The line of waiting clips once its first k have left it.
LEMMA AfterTheFirst ==
  ASSUME NEW w \in Seq(Slots), NEW k \in 0 .. Len(w)
  PROVE  /\ SubSeq(w, k + 1, Len(w)) \in Seq(Slots)
         /\ Len(SubSeq(w, k + 1, Len(w))) = Len(w) - k
         /\ \A i \in 1 .. Len(w) - k : SubSeq(w, k + 1, Len(w))[i] = w[i + k]
<1>1. SubSeq(w, k + 1, Len(w)) \in Seq(Slots)
  BY SMT
<1>2. Len(SubSeq(w, k + 1, Len(w))) = Len(w) - k
  BY SMT
<1>3. ASSUME NEW i \in 1 .. Len(w) - k
      PROVE  SubSeq(w, k + 1, Len(w))[i] = w[i + k]
  BY SMT
<1> QED BY <1>1, <1>2, <1>3

\* drain() leaves the slots exact when E are the clips still encoded.
LEMMA DrainKeepsSlots ==
  ASSUME NEW R, NEW a \in Nat, NEW E, E \subseteq Slots, IsFiniteSet(E), Cardinality(E) = a,
         waiters \in Seq(Slots), WaitingClips \cap E = {},
         \A m, n \in DOMAIN waiters : waiters[m] = waiters[n] => m = n,
         Drain(R, a, E)
  PROVE  /\ gateActive' \in Nat /\ waiters' \in Seq(Slots)
         /\ encoding' \subseteq Slots /\ IsFiniteSet(encoding')
         /\ SlotsAreCounted'
         /\ waiters' # <<>> => ~ HasRoom(R, gateActive')
         /\ Busy' \subseteq E \cup WaitingClips
<1>0. Len(waiters) \in Nat /\ DOMAIN waiters = 1 .. Len(waiters)
  OBVIOUS
<1>1. PICK k \in 0 .. Len(waiters) :
        /\ k = Len(waiters) \/ ~ HasRoom(R, a + k)
        /\ gateActive' = a + k
        /\ encoding' = E \cup {waiters[i] : i \in 1 .. k}
        /\ waiters' = SubSeq(waiters, k + 1, Len(waiters))
  <2>1. Woken(R, a, waiters) \in 0 .. Len(waiters)
    BY <1>0, WokenIsRight DEF DEFAULT_LIMIT
  <2> QED BY <2>1, WokenIsRight DEF Drain
<1> DEFINE T == {waiters[i] : i \in 1 .. k}
<1>2. IsFiniteSet(T) /\ Cardinality(T) = k
  BY FirstsAreCounted
<1>4. T \subseteq WaitingClips /\ T \cap E = {}
  BY <1>0 DEF WaitingClips
<1>5. /\ waiters' \in Seq(Slots) /\ Len(waiters') = Len(waiters) - k
      /\ \A i \in 1 .. Len(waiters) - k : waiters'[i] = waiters[i + k]
      /\ DOMAIN waiters' = 1 .. Len(waiters) - k
  <2>1. /\ waiters' \in Seq(Slots) /\ Len(waiters') = Len(waiters) - k
        /\ \A i \in 1 .. Len(waiters) - k : waiters'[i] = waiters[i + k]
    BY <1>1, AfterTheFirst, Zenon
  <2>2. DOMAIN waiters' = 1 .. Len(waiters')
    BY <2>1
  <2> QED BY <2>1, <2>2
<1>6. WaitingClips' \subseteq WaitingClips /\ WaitingClips' \cap T = {}
  <2>1. ASSUME NEW m \in DOMAIN waiters'
        PROVE  /\ m + k \in DOMAIN waiters /\ m + k > k
               /\ waiters'[m] = waiters[m + k]
    BY <1>0, <1>5
  <2>2. ASSUME NEW m \in DOMAIN waiters', NEW i \in 1 .. k
        PROVE  waiters'[m] # waiters[i]
    <3>1. i \in DOMAIN waiters /\ m + k # i
      BY <1>0, <2>1
    <3> QED BY <2>1, <3>1
  <2> QED BY <2>1, <2>2 DEF WaitingClips
<1>7. \A m, n \in DOMAIN waiters' : waiters'[m] = waiters'[n] => m = n
  <2> SUFFICES ASSUME NEW m \in DOMAIN waiters', NEW n \in DOMAIN waiters',
                      waiters'[m] = waiters'[n]
               PROVE  m = n
    OBVIOUS
  <2>1. m + k \in DOMAIN waiters /\ n + k \in DOMAIN waiters
    BY <1>0, <1>5
  <2>2. waiters[m + k] = waiters[n + k]
    BY <1>5
  <2>3. m + k = n + k
    BY <2>1, <2>2
  <2> QED BY <1>0, <1>5, <2>3
<1>8. IsFiniteSet(E \cup T) /\ Cardinality(E \cup T) = a + k
  <2> HIDE DEF T
  <2>1. IsFiniteSet(E \cup T)
        /\ Cardinality(E \cup T) = Cardinality(E) + Cardinality(T) - Cardinality(E \cap T)
    BY <1>2, FS_Union
  <2>2. E \cap T = {} /\ Cardinality({}) = 0
    BY <1>4, FS_EmptySet
  <2>3. Cardinality(E) + Cardinality(T) - Cardinality(E \cap T) = a + k
    <3>1. Cardinality(E \cap T) = 0
      BY <2>2, Zenon
    <3>2. Cardinality(E) + Cardinality(T) - Cardinality(E \cap T) = a + k - 0
      BY <1>2, <3>1, Zenon
    <3>3. a + k - 0 = a + k
      OBVIOUS
    <3> QED BY <3>2, <3>3, Zenon
  <2> QED BY <2>1, <2>3, Zenon
<1>9. waiters' # <<>> => ~ HasRoom(R, gateActive')
  <2>1. k = Len(waiters) => waiters' = <<>>
    BY <1>0, <1>5
  <2> QED BY <1>1, <2>1
<1>10. T \subseteq Slots
  BY <1>0
<1> HIDE DEF T
<1>13. encoding' = E \cup T
  BY <1>1 DEF T
<1>11. SlotsAreCounted'
  BY <1>1, <1>13, <1>4, <1>6, <1>7, <1>8 DEF SlotsAreCounted
<1>12. Busy' \subseteq E \cup WaitingClips
  BY <1>13, <1>4, <1>6 DEF Busy
<1>14. gateActive' \in Nat
  BY <1>1
<1>15. encoding' \subseteq Slots /\ IsFiniteSet(encoding')
  BY <1>13, <1>8, <1>10
<1> QED BY <1>14, <1>15, <1>5, <1>9, <1>11, <1>12

\* Asking for a slot keeps the slots exact: it is taken when one is free, and
\* otherwise the gate is full.
LEMMA AcquireKeepsSlots ==
  ASSUME GateTypes, SlotsAreExact, NEW s \in Slots, s \notin Busy, Acquire(registered, s)
  PROVE  /\ gateActive' \in Nat /\ waiters' \in Seq(Slots)
         /\ encoding' \subseteq Slots /\ IsFiniteSet(encoding')
         /\ SlotsAreCounted'
         /\ waiters' # <<>> => ~ HasRoom(registered, gateActive')
         /\ Busy' \subseteq Busy \cup {s}
<1>0. Len(waiters) \in Nat /\ DOMAIN waiters = 1 .. Len(waiters)
  BY DEF GateTypes
<1>1. CASE HasRoom(registered, gateActive)
  <2>1. /\ gateActive' = gateActive + 1 /\ encoding' = encoding \cup {s} /\ waiters' = waiters
    BY <1>1 DEF Acquire
  <2>2. waiters = <<>>
    BY <1>1 DEF SlotsAreExact, NoSlotIdles
  <2>3. IsFiniteSet(encoding') /\ Cardinality(encoding') = Cardinality(encoding) + 1
    BY <2>1, FS_AddElement DEF GateTypes, Busy
  <2>4. WaitingClips' = {}
    BY <1>0, <2>1, <2>2 DEF WaitingClips
  <2>5. gateActive' = Cardinality(encoding')
    BY <2>1, <2>3 DEF SlotsAreExact, SlotsAreCounted
  <2>6. SlotsAreCounted'
    BY <2>1, <2>2, <2>4, <2>5 DEF SlotsAreCounted
  <2> QED BY <2>1, <2>2, <2>3, <2>4, <2>6 DEF GateTypes, Busy
<1>2. CASE ~ HasRoom(registered, gateActive)
  <2>1. gateActive' = gateActive /\ encoding' = encoding /\ waiters' = Append(waiters, s)
    BY <1>2 DEF Acquire
  <2>2. /\ waiters' \in Seq(Slots)
        /\ DOMAIN waiters' = 1 .. Len(waiters) + 1
        /\ \A i \in 1 .. Len(waiters) : waiters'[i] = waiters[i]
        /\ waiters'[Len(waiters) + 1] = s
    BY <1>0, <2>1 DEF GateTypes
  <2>3. \A i \in DOMAIN waiters' :
          \/ i \in DOMAIN waiters /\ waiters'[i] = waiters[i]
          \/ i = Len(waiters) + 1 /\ waiters'[i] = s
    BY <1>0, <2>2
  <2>4. WaitingClips' \subseteq WaitingClips \cup {s}
    BY <2>3 DEF WaitingClips
  <2>5. s \notin WaitingClips /\ s \notin encoding
    BY DEF Busy
  <2>6. \A m, n \in DOMAIN waiters' : waiters'[m] = waiters'[n] => m = n
    <3>1. \A m \in DOMAIN waiters : waiters[m] # s
      BY <2>5 DEF WaitingClips
    <3> QED BY <2>3, <3>1 DEF SlotsAreExact, SlotsAreCounted
  <2>7. SlotsAreCounted'
    BY <2>1, <2>4, <2>5, <2>6 DEF SlotsAreExact, SlotsAreCounted
  <2> QED BY <1>2, <2>1, <2>2, <2>4, <2>7 DEF GateTypes, Busy
<1> QED BY <1>1, <1>2

\* What is left to show of a step once the slots are.
LEMMA NamesAreEnough ==
  ASSUME GateTypes, SlotsAreNamed, SlotsAreNamed',
         registered' \subseteq GateJobs,
         phase' \in [GateJobs -> {"clips", "joining", "concat", "ended"}],
         nextClip' \in [GateJobs -> Nat],
         gateActive' \in Nat, waiters' \in Seq(Slots),
         encoding' \subseteq Slots, IsFiniteSet(encoding'),
         SlotsAreCounted',
         waiters' # <<>> => ~ HasRoom(registered', gateActive')
  PROVE  GateInv'
BY DEF GateInv, GateTypes, SlotsAreExact, NoSlotIdles

\* drain() when one clip leaves the gate, or when only the limits change.
LEMMA DrainAfter ==
  ASSUME GateInv, NEW R, NEW s \in encoding, Drain(R, gateActive - 1, encoding \ {s})
  PROVE  /\ gateActive' \in Nat /\ waiters' \in Seq(Slots)
         /\ encoding' \subseteq Slots /\ IsFiniteSet(encoding')
         /\ SlotsAreCounted'
         /\ waiters' # <<>> => ~ HasRoom(R, gateActive')
         /\ Busy' \subseteq Busy \ {s}
<1> DEFINE E == encoding \ {s}
<1>1. IsFiniteSet(E) /\ Cardinality(E) = Cardinality(encoding) - 1
  BY FS_RemoveElement DEF GateInv, GateTypes
<1>2. Cardinality(encoding) \in Nat /\ Cardinality(E) \in Nat
  BY <1>1, FS_CardinalityType DEF GateInv, GateTypes
<1>3. gateActive - 1 \in Nat /\ Cardinality(E) = gateActive - 1
  BY <1>1, <1>2 DEF GateInv, SlotsAreExact, SlotsAreCounted
<1>4. /\ E \subseteq Slots /\ waiters \in Seq(Slots) /\ WaitingClips \cap E = {}
      /\ s \notin WaitingClips
      /\ \A m, n \in DOMAIN waiters : waiters[m] = waiters[n] => m = n
  BY DEF GateInv, GateTypes, SlotsAreExact, SlotsAreCounted
<1>5. E \cup WaitingClips \subseteq Busy \ {s}
  BY <1>4 DEF Busy
<1>6. Drain(R, gateActive - 1, E)
  OBVIOUS
<1> HIDE DEF E
<1> QED BY <1>1, <1>3, <1>4, <1>5, <1>6, DrainKeepsSlots

LEMMA DrainOnly ==
  ASSUME GateInv, NEW R, Drain(R, gateActive, encoding)
  PROVE  /\ gateActive' \in Nat /\ waiters' \in Seq(Slots)
         /\ encoding' \subseteq Slots /\ IsFiniteSet(encoding')
         /\ SlotsAreCounted'
         /\ waiters' # <<>> => ~ HasRoom(R, gateActive')
         /\ Busy' \subseteq Busy
<1>1. /\ gateActive \in Nat /\ encoding \subseteq Slots /\ IsFiniteSet(encoding)
      /\ Cardinality(encoding) = gateActive /\ waiters \in Seq(Slots)
      /\ WaitingClips \cap encoding = {}
      /\ \A m, n \in DOMAIN waiters : waiters[m] = waiters[n] => m = n
  BY DEF GateInv, GateTypes, SlotsAreExact, SlotsAreCounted
<1> QED BY <1>1, DrainKeepsSlots DEF Busy

\* Every clip that waits or encodes is a slot.
LEMMA BusyAreSlots ==
  ASSUME GateTypes
  PROVE  Busy \subseteq Slots
BY DEF GateTypes, Busy, WaitingClips
-----------------------------------------------------------------------------
LEMMA InitGates == GateInit => GateInv
<1> SUFFICES ASSUME GateInit PROVE GateInv
  OBVIOUS
<1>1. WaitingClips = {} /\ Busy = {}
  BY DEF GateInit, WaitingClips, Busy
<1>2. \A j \in GateJobs : ClipCount[j] \in Nat \ {0}
  BY GateAssumption
<1>3. GateTypes
  BY <1>2, FS_EmptySet DEF GateInit, GateTypes
<1>4. SlotsAreExact
  BY <1>1, FS_EmptySet DEF GateInit, SlotsAreExact, SlotsAreCounted, NoSlotIdles
<1>5. SlotsAreNamed
  BY <1>1, <1>2 DEF GateInit, SlotsAreNamed
<1> QED BY <1>3, <1>4, <1>5 DEF GateInv

LEMMA GateStep == GateInv /\ [GateNext]_gateVars => GateInv'
<1> SUFFICES ASSUME GateInv, [GateNext]_gateVars PROVE GateInv'
  OBVIOUS
<1>t. GateTypes /\ SlotsAreExact /\ SlotsAreNamed
  BY DEF GateInv
<1>c. \A j \in GateJobs : ClipCount[j] \in Nat \ {0}
  BY GateAssumption
<1>s. \A s \in Busy : s[1] \in GateJobs /\ s[2] \in 1 .. ClipCount[s[1]] + 1 /\ s = <<s[1], s[2]>>
  BY <1>t, BusyAreSlots, SlotShape
<1>f. /\ phase \in [GateJobs -> {"clips", "joining", "concat", "ended"}]
      /\ nextClip \in [GateJobs -> Nat] /\ registered \subseteq GateJobs
  BY <1>t DEF GateTypes
<1>n. ASSUME NEW j \in GateJobs, NEW s \in Busy, s[1] = j
      PROVE  s \in BusyWorkers(j)
  BY <1>n DEF Busy, BusyWorkers
<1>1. ASSUME NEW j \in GateJobs, StartExport(j)
      PROVE  GateInv'
  <2>1. /\ phase[j] = "ended" /\ BusyWorkers(j) = {}
        /\ registered' = registered \cup {j}
        /\ phase' = [phase EXCEPT ![j] = "clips"]
        /\ nextClip' = [nextClip EXCEPT ![j] = 1]
        /\ UNCHANGED <<gateActive, waiters, encoding>>
    BY <1>1 DEF StartExport
  <2>2. Busy' = Busy /\ SlotsAreCounted'
    BY <1>t, <2>1 DEF Busy, WaitingClips, SlotsAreExact, SlotsAreCounted
  <2>3. \A s \in Busy : s[1] # j
    BY <1>n, <2>1
  <2>4. SlotsAreNamed'
    BY <1>t, <1>c, <1>s, <1>f, <2>1, <2>2, <2>3 DEF SlotsAreNamed
  <2>5. waiters' # <<>> => ~ HasRoom(registered', gateActive')
    BY <1>t, <2>1 DEF SlotsAreExact, NoSlotIdles, HasRoom
  <2> QED BY <1>t, <1>f, <2>1, <2>2, <2>4, <2>5, NamesAreEnough DEF GateTypes
<1>2. ASSUME NEW j \in GateJobs, TakeClip(j)
      PROVE  GateInv'
  <2> DEFINE s == <<j, nextClip[j]>>
  <2>1. /\ nextClip[j] <= ClipCount[j] /\ Acquire(registered, s)
        /\ nextClip' = [nextClip EXCEPT ![j] = @ + 1]
        /\ registered' = registered /\ phase' = phase
    BY <1>2 DEF TakeClip
  <2>2. nextClip[j] \in 1 .. ClipCount[j] /\ phase[j] \notin {"joining", "concat"}
    BY <1>t, <1>c, <1>f, <2>1 DEF SlotsAreNamed
  <2>3. s \in Slots
    BY <1>c, <2>2, SlotIn
  <2>4. s \notin Busy
    BY <1>t, <1>f, <2>2 DEF SlotsAreNamed
  <2> HIDE DEF s
  <2>5. /\ gateActive' \in Nat /\ waiters' \in Seq(Slots)
        /\ encoding' \subseteq Slots /\ IsFiniteSet(encoding')
        /\ SlotsAreCounted'
        /\ waiters' # <<>> => ~ HasRoom(registered, gateActive')
        /\ Busy' \subseteq Busy \cup {s}
    BY <1>t, <2>1, <2>3, <2>4, AcquireKeepsSlots
  <2>6. nextClip' \in [GateJobs -> Nat]
    BY <1>f, <2>1
  <2>7. SlotsAreNamed'
    <3>1. ASSUME NEW i \in GateJobs
          PROVE  /\ nextClip'[i] \in 1 .. ClipCount[i] + 1
                 /\ phase'[i] \in {"joining", "concat"} => nextClip'[i] = ClipCount[i] + 1
      BY <1>t, <1>c, <1>f, <2>1, <2>2 DEF SlotsAreNamed
    <3>2. ASSUME NEW u \in Busy'
          PROVE  IF phase'[u[1]] = "concat" THEN u = Concat(u[1])
                 ELSE phase'[u[1]] # "joining" /\ u[2] < nextClip'[u[1]]
      <4>1. CASE u = s
        BY <1>f, <2>1, <2>2, <4>1 DEF s
      <4>2. CASE u \in Busy
        BY <1>t, <1>s, <1>f, <2>1, <2>2, <4>2 DEF SlotsAreNamed
      <4> QED BY <2>5, <4>1, <4>2
    <3> QED BY <3>1, <3>2 DEF SlotsAreNamed
  <2> QED BY <1>t, <1>f, <2>1, <2>5, <2>6, <2>7, NamesAreEnough
<1>3. ASSUME NEW j \in GateJobs, NEW s \in Slots, ClipEnds(j, s)
      PROVE  GateInv'
  <2>1. /\ s \in encoding /\ Drain(registered, gateActive - 1, encoding \ {s})
        /\ registered' = registered /\ phase' = phase /\ nextClip' = nextClip
    BY <1>3 DEF ClipEnds
  <2>2. /\ gateActive' \in Nat /\ waiters' \in Seq(Slots)
        /\ encoding' \subseteq Slots /\ IsFiniteSet(encoding')
        /\ SlotsAreCounted'
        /\ waiters' # <<>> => ~ HasRoom(registered, gateActive')
        /\ Busy' \subseteq Busy \ {s}
    BY <2>1, DrainAfter
  <2>3. SlotsAreNamed'
    BY <1>t, <2>1, <2>2 DEF SlotsAreNamed, Concat
  <2> QED BY <1>t, <1>f, <2>1, <2>2, <2>3, NamesAreEnough
<1>4. ASSUME NEW j \in GateJobs, NEW s \in Slots, PartFails(j, s)
      PROVE  GateInv'
  <2>1. /\ s \in encoding /\ s[1] = j /\ s # Concat(j)
        /\ Drain(registered', gateActive - 1, encoding \ {s})
        /\ registered' = registered \ {j} /\ phase' = [phase EXCEPT ![j] = "ended"]
        /\ nextClip' = nextClip
    BY <1>4 DEF PartFails
  <2>2. /\ gateActive' \in Nat /\ waiters' \in Seq(Slots)
        /\ encoding' \subseteq Slots /\ IsFiniteSet(encoding')
        /\ SlotsAreCounted'
        /\ waiters' # <<>> => ~ HasRoom(registered', gateActive')
        /\ Busy' \subseteq Busy \ {s}
    BY <2>1, DrainAfter
  <2>3. phase[j] \notin {"concat", "joining"}
    BY <1>t, <2>1 DEF SlotsAreNamed, Busy
  <2>4. SlotsAreNamed'
    BY <1>t, <1>s, <1>f, <2>1, <2>2, <2>3 DEF SlotsAreNamed, Concat
  <2>5. phase' \in [GateJobs -> {"clips", "joining", "concat", "ended"}]
    BY <1>f, <2>1
  <2> QED BY <1>t, <1>f, <2>1, <2>2, <2>4, <2>5, NamesAreEnough
<1>5. ASSUME NEW j \in GateJobs, PoolEnds(j)
      PROVE  GateInv'
  <2>1. /\ nextClip[j] > ClipCount[j] /\ BusyWorkers(j) = {}
        /\ Drain(registered', gateActive, encoding)
        /\ registered' = registered \ {j}
        /\ phase' = [phase EXCEPT ![j] = IF j \in MergeJobs THEN "joining" ELSE "ended"]
        /\ nextClip' = nextClip
    BY <1>5 DEF PoolEnds
  <2>2. /\ gateActive' \in Nat /\ waiters' \in Seq(Slots)
        /\ encoding' \subseteq Slots /\ IsFiniteSet(encoding')
        /\ SlotsAreCounted'
        /\ waiters' # <<>> => ~ HasRoom(registered', gateActive')
        /\ Busy' \subseteq Busy
    BY <2>1, DrainOnly
  <2>3. \A s \in Busy : s[1] # j
    BY <1>n, <2>1
  <2>4. nextClip[j] = ClipCount[j] + 1
    BY <1>t, <1>c, <1>f, <2>1 DEF SlotsAreNamed
  <2>5. SlotsAreNamed'
    BY <1>t, <1>s, <1>f, <2>1, <2>2, <2>3, <2>4 DEF SlotsAreNamed, Concat
  <2>6. phase' \in [GateJobs -> {"clips", "joining", "concat", "ended"}]
    BY <1>f, <2>1
  <2> QED BY <1>t, <1>f, <2>1, <2>2, <2>5, <2>6, NamesAreEnough
<1>6. ASSUME NEW j \in GateJobs, StartConcat(j)
      PROVE  GateInv'
  <2>1. /\ phase[j] = "joining" /\ Acquire(registered, Concat(j))
        /\ phase' = [phase EXCEPT ![j] = "concat"]
        /\ registered' = registered /\ nextClip' = nextClip
    BY <1>6 DEF StartConcat
  <2>2. \A s \in Busy : s[1] # j
    BY <1>t, <2>1 DEF SlotsAreNamed
  <2>3. Concat(j) \in Slots /\ Concat(j)[1] = j
    BY <1>c, SlotIn DEF Concat
  <2>4. Concat(j) \notin Busy
    BY <2>2, <2>3
  <2>5. /\ gateActive' \in Nat /\ waiters' \in Seq(Slots)
        /\ encoding' \subseteq Slots /\ IsFiniteSet(encoding')
        /\ SlotsAreCounted'
        /\ waiters' # <<>> => ~ HasRoom(registered, gateActive')
        /\ Busy' \subseteq Busy \cup {Concat(j)}
    BY <1>t, <2>1, <2>3, <2>4, AcquireKeepsSlots
  <2>6. SlotsAreNamed'
    <3>1. ASSUME NEW i \in GateJobs
          PROVE  /\ nextClip'[i] \in 1 .. ClipCount[i] + 1
                 /\ phase'[i] \in {"joining", "concat"} => nextClip'[i] = ClipCount[i] + 1
      BY <1>t, <1>c, <1>f, <2>1 DEF SlotsAreNamed
    <3>2. ASSUME NEW u \in Busy'
          PROVE  IF phase'[u[1]] = "concat" THEN u = Concat(u[1])
                 ELSE phase'[u[1]] # "joining" /\ u[2] < nextClip'[u[1]]
      <4>1. CASE u = Concat(j)
        BY <1>f, <2>1, <2>3, <4>1
      <4>2. CASE u \in Busy
        BY <1>t, <1>s, <1>f, <2>1, <2>2, <4>2 DEF SlotsAreNamed
      <4> QED BY <2>5, <4>1, <4>2
    <3> QED BY <3>1, <3>2 DEF SlotsAreNamed
  <2>7. phase' \in [GateJobs -> {"clips", "joining", "concat", "ended"}]
    BY <1>f, <2>1
  <2> QED BY <1>t, <1>f, <2>1, <2>5, <2>6, <2>7, NamesAreEnough
<1>7. ASSUME NEW j \in GateJobs, ConcatEnds(j)
      PROVE  GateInv'
  <2>1. /\ Concat(j) \in encoding
        /\ Drain(registered, gateActive - 1, encoding \ {Concat(j)})
        /\ phase' = [phase EXCEPT ![j] = "ended"]
        /\ registered' = registered /\ nextClip' = nextClip
    BY <1>7 DEF ConcatEnds
  <2>2. /\ gateActive' \in Nat /\ waiters' \in Seq(Slots)
        /\ encoding' \subseteq Slots /\ IsFiniteSet(encoding')
        /\ SlotsAreCounted'
        /\ waiters' # <<>> => ~ HasRoom(registered, gateActive')
        /\ Busy' \subseteq Busy \ {Concat(j)}
    BY <2>1, DrainAfter
  <2>3. Concat(j) \in Busy /\ Concat(j)[1] = j /\ Concat(j)[2] = ClipCount[j] + 1
    BY <2>1 DEF Busy, Concat
  <2>4. phase[j] = "concat"
    <3>1. nextClip[j] \in 1 .. ClipCount[j] + 1
      BY <1>t DEF SlotsAreNamed
    <3>2. phase[j] # "concat" => ClipCount[j] + 1 < nextClip[j]
      BY <1>t, <2>3 DEF SlotsAreNamed
    <3> QED BY <1>c, <1>f, <3>1, <3>2
  <2>5. \A s \in Busy \ {Concat(j)} : s[1] # j
    BY <1>t, <2>4 DEF SlotsAreNamed
  <2>6. SlotsAreNamed'
    BY <1>t, <1>s, <1>f, <2>1, <2>2, <2>5 DEF SlotsAreNamed, Concat
  <2>7. phase' \in [GateJobs -> {"clips", "joining", "concat", "ended"}]
    BY <1>f, <2>1
  <2> QED BY <1>t, <1>f, <2>1, <2>2, <2>6, <2>7, NamesAreEnough
<1>8. CASE UNCHANGED gateVars
  BY <1>t, <1>8 DEF gateVars, GateInv, GateTypes, SlotsAreExact, SlotsAreCounted,
     NoSlotIdles, SlotsAreNamed, Busy, WaitingClips
<1> QED BY <1>1, <1>2, <1>3, <1>4, <1>5, <1>6, <1>7, <1>8 DEF GateNext, ExportSteps

\* No slot leaks, none is given back twice and none is free while a clip waits
\* (drain, acquire and release of core/export/gate.js, and the exports of
\* core/export.js that use them).
THEOREM SlotsStayExact == GateSpec => []SlotsAreExact
<1>1. GateInv => SlotsAreExact
  BY DEF GateInv
<1> QED BY <1>1, InitGates, GateStep, PTL DEF GateSpec

-----------------------------------------------------------------------------
\* The clips the workers of an export are at, its concatenation apart.
Working(j) == {s \in Busy : s[1] = j /\ s # Concat(j)}

\* An export has a worker for each of them: a part that fails ends the worker
\* that was at it, and no other.
CrewInv ==
  /\ crew \in [GateJobs -> Nat]
  /\ \A j \in GateJobs : Cardinality(Working(j)) <= crew[j]

LEMMA WorkingIsFinite ==
  ASSUME GateTypes, NEW j
  PROVE  /\ IsFiniteSet(BusyWorkers(j)) /\ Cardinality(BusyWorkers(j)) \in Nat
         /\ IsFiniteSet(Working(j)) /\ Cardinality(Working(j)) \in Nat
         /\ Cardinality(Working(j)) <= Cardinality(BusyWorkers(j))
<1>1. Len(waiters) \in Nat /\ DOMAIN waiters = 1 .. Len(waiters)
  BY DEF GateTypes
<1>2. waiters \in Surjection(1 .. Len(waiters), WaitingClips)
  BY <1>1, SeqDef DEF GateTypes, WaitingClips, Surjection
<1>3. IsFiniteSet(WaitingClips)
  BY <1>1, <1>2, FS_Interval, FS_Surjection
<1>4. IsFiniteSet(encoding \cup WaitingClips)
  BY <1>3, FS_Union DEF GateTypes
<1>5. BusyWorkers(j) \in SUBSET (encoding \cup WaitingClips)
  BY DEF BusyWorkers
<1>6. Working(j) \in SUBSET BusyWorkers(j)
  BY DEF Working, BusyWorkers, Busy
<1> QED BY <1>4, <1>5, <1>6, FS_Subset, FS_CardinalityType

\* A worker more is only needed for a clip more.
LEMMA CrewKept ==
  ASSUME GateTypes, CrewInv, crew' = crew, \A s \in Busy' : s \in Busy \/ s = Concat(s[1])
  PROVE  CrewInv'
<1>1. ASSUME NEW j \in GateJobs PROVE Cardinality(Working(j)') <= crew[j]
  <2>1. Working(j)' \in SUBSET Working(j)
    BY DEF Working, Concat
  <2>2. Cardinality(Working(j)') <= Cardinality(Working(j))
        /\ Cardinality(Working(j)') \in Nat /\ Cardinality(Working(j)) \in Nat
    BY <2>1, WorkingIsFinite, FS_Subset, FS_CardinalityType
  <2> QED  BY <2>2 DEF CrewInv
<1> QED  BY <1>1 DEF CrewInv

LEMMA AcquireAsks ==
  ASSUME GateTypes, NEW s, Acquire(registered, s)
  PROVE  Busy' \subseteq Busy \cup {s}
<1>1. CASE HasRoom(registered, gateActive)
  BY <1>1 DEF Acquire, Busy, WaitingClips
<1>2. CASE ~ HasRoom(registered, gateActive)
  <2>1. encoding' = encoding /\ waiters' = Append(waiters, s)
    BY <1>2 DEF Acquire
  <2>2. \A i \in DOMAIN waiters' :
          (i \in DOMAIN waiters /\ waiters'[i] = waiters[i]) \/ waiters'[i] = s
    BY <2>1 DEF GateTypes
  <2> QED  BY <2>1, <2>2 DEF Busy, WaitingClips
<1> QED  BY <1>1, <1>2

LEMMA CrewStart == GateInit => CrewInv
<1> SUFFICES ASSUME GateInit PROVE CrewInv
  OBVIOUS
<1>1. \A j \in GateJobs : Working(j) = {}
  BY DEF GateInit, Working, Busy, WaitingClips
<1>2. Cardinality({}) = 0
  BY FS_EmptySet
<1>3. crew \in [GateJobs -> Nat] /\ \A j \in GateJobs : crew[j] = 0
  BY DEF GateInit
<1>4. ASSUME NEW j \in GateJobs PROVE Cardinality(Working(j)) <= crew[j]
  <2>1. Cardinality(Working(j)) = 0
    BY <1>1, <1>2
  <2> QED  BY <1>3, <2>1
<1> QED  BY <1>3, <1>4 DEF CrewInv

LEMMA CrewStep == GateInv /\ CrewInv /\ [GateNext]_gateVars => CrewInv'
<1> SUFFICES ASSUME GateInv, CrewInv, [GateNext]_gateVars PROVE CrewInv'
  OBVIOUS
<1>t. GateTypes /\ crew \in [GateJobs -> Nat]
  BY DEF GateInv, CrewInv
<1>w. ASSUME NEW j \in GateJobs PROVE Cardinality(Working(j)) <= crew[j]
  BY DEF CrewInv
<1>1. ASSUME NEW j \in GateJobs, StartExport(j) PROVE CrewInv'
  <2>1. /\ BusyWorkers(j) = {} /\ crew' = [crew EXCEPT ![j] = Lesser(JobLimit[j], ClipCount[j])]
        /\ UNCHANGED <<waiters, encoding>>
    BY <1>1 DEF StartExport
  <2>2. Lesser(JobLimit[j], ClipCount[j]) \in Nat
    BY GateAssumption DEF Lesser
  <2>3. \A i \in GateJobs : Working(i)' = Working(i)
    BY <2>1 DEF Working, Busy, WaitingClips
  <2>4. Cardinality(Working(j)) = 0
    <3>1. Working(j) = {}
      BY <2>1 DEF Working, BusyWorkers, Busy
    <3> QED  BY <3>1, FS_EmptySet
  <2>5. crew' \in [GateJobs -> Nat]
    BY <1>t, <2>1, <2>2
  <2>6. ASSUME NEW i \in GateJobs PROVE Cardinality(Working(i)') <= crew'[i]
    <3>1. CASE i = j
      BY <1>t, <2>1, <2>2, <2>3, <2>4, <3>1
    <3>2. CASE i # j
      BY <1>t, <1>w, <2>1, <2>3, <3>2
    <3> QED  BY <3>1, <3>2
  <2> QED  BY <2>5, <2>6 DEF CrewInv
<1>2. ASSUME NEW j \in GateJobs, TakeClip(j) PROVE CrewInv'
  <2> DEFINE s == <<j, nextClip[j]>>
  <2>1. Cardinality(BusyWorkers(j)) < crew[j] /\ Acquire(registered, s) /\ crew' = crew
    BY <1>2 DEF TakeClip
  <2>2. Busy' \subseteq Busy \cup {s} /\ s[1] = j
    BY <1>t, <2>1, AcquireAsks
  <2> HIDE DEF s
  <2>3. ASSUME NEW i \in GateJobs PROVE Cardinality(Working(i)') <= crew'[i]
    <3>1. Working(i)' \in SUBSET (IF i = j THEN Working(j) \cup {s} ELSE Working(i))
      BY <2>2 DEF Working, Concat
    <3>2. CASE i # j
      <4>1. Cardinality(Working(i)') <= Cardinality(Working(i))
        BY <1>t, <3>1, <3>2, WorkingIsFinite, FS_Subset
      <4>2. Cardinality(Working(i)') \in Nat /\ Cardinality(Working(i)) \in Nat
        BY <1>t, <3>1, <3>2, WorkingIsFinite, FS_Subset, FS_CardinalityType
      <4> QED  BY <1>t, <1>w, <2>1, <4>1, <4>2
    <3>3. CASE i = j
      <4>1. /\ IsFiniteSet(Working(j) \cup {s})
            /\ Cardinality(Working(j) \cup {s}) <= Cardinality(Working(j)) + 1
        BY <1>t, WorkingIsFinite, FS_AddElement
      <4>2. /\ Cardinality(Working(j)') <= Cardinality(Working(j) \cup {s})
            /\ Cardinality(Working(j)') \in Nat /\ Cardinality(Working(j) \cup {s}) \in Nat
        BY <3>1, <3>3, <4>1, FS_Subset, FS_CardinalityType
      <4> QED  BY <1>t, <2>1, <3>3, <4>1, <4>2, WorkingIsFinite
    <3> QED  BY <3>2, <3>3
  <2> QED  BY <1>t, <2>1, <2>3 DEF CrewInv
<1>3. ASSUME NEW j \in GateJobs, NEW s \in Slots, ClipEnds(j, s) PROVE CrewInv'
  <2>1. s \in encoding /\ Drain(registered, gateActive - 1, encoding \ {s}) /\ crew' = crew
    BY <1>3 DEF ClipEnds
  <2>2. Busy' \subseteq Busy
    BY <2>1, DrainAfter
  <2> QED  BY <1>t, <2>1, <2>2, CrewKept
<1>4. ASSUME NEW j \in GateJobs, NEW s \in Slots, PartFails(j, s) PROVE CrewInv'
  <2>1. /\ s \in encoding /\ s[1] = j /\ s # Concat(j)
        /\ Drain(registered', gateActive - 1, encoding \ {s})
        /\ crew' = [crew EXCEPT ![j] = @ - 1]
    BY <1>4 DEF PartFails
  <2>2. Busy' \subseteq Busy \ {s}
    BY <2>1, DrainAfter
  <2>3. s \in Working(j)
    BY <2>1 DEF Working, Busy
  <2>4. \A i \in GateJobs : Working(i)' \in SUBSET (Working(i) \ {s})
    BY <2>2 DEF Working, Concat
  <2>5. ASSUME NEW i \in GateJobs
        PROVE  /\ IsFiniteSet(Working(i) \ {s})
               /\ Cardinality(Working(i) \ {s})
                    = IF s \in Working(i) THEN Cardinality(Working(i)) - 1 ELSE Cardinality(Working(i))
    BY <1>t, WorkingIsFinite, FS_RemoveElement
  <2>6. ASSUME NEW i \in GateJobs
        PROVE  /\ Cardinality(Working(i)') <= Cardinality(Working(i) \ {s})
               /\ Cardinality(Working(i)') \in Nat /\ Cardinality(Working(i) \ {s}) \in Nat
    BY <2>4, <2>5, FS_Subset, FS_CardinalityType
  <2>7. crew[j] - 1 \in Nat
    <3>1. /\ Cardinality(Working(j)) \in Nat /\ Cardinality(Working(j)) <= crew[j]
          /\ crew[j] \in Nat
      BY <1>t, <1>w, WorkingIsFinite
    <3>2. Cardinality(Working(j)) - 1 \in Nat
      BY <2>3, <2>5, <2>6
    <3> QED  BY <3>1, <3>2
  <2>8. ASSUME NEW i \in GateJobs PROVE Cardinality(Working(i)') <= crew'[i]
    <3>1. Cardinality(Working(i)) \in Nat /\ Cardinality(Working(i)) <= crew[i] /\ crew[i] \in Nat
      BY <1>t, <1>w, WorkingIsFinite
    <3>2. crew'[i] = IF i = j THEN crew[i] - 1 ELSE crew[i]
      BY <1>t, <2>1
    <3>3. i = j => s \in Working(i)
      BY <2>3
    <3>4. /\ Cardinality(Working(i)') <= Cardinality(Working(i) \ {s})
          /\ Cardinality(Working(i)') \in Nat /\ Cardinality(Working(i) \ {s}) \in Nat
          /\ Cardinality(Working(i) \ {s})
               = IF s \in Working(i) THEN Cardinality(Working(i)) - 1 ELSE Cardinality(Working(i))
      BY <2>5, <2>6
    <3> QED  BY <3>1, <3>2, <3>3, <3>4
  <2>9. crew' \in [GateJobs -> Nat]
    BY <1>t, <2>1, <2>7
  <2> QED  BY <2>8, <2>9 DEF CrewInv
<1>5. ASSUME NEW j \in GateJobs, PoolEnds(j) PROVE CrewInv'
  <2>1. Drain(registered', gateActive, encoding) /\ crew' = crew
    BY <1>5 DEF PoolEnds
  <2>2. Busy' \subseteq Busy
    BY <2>1, DrainOnly
  <2> QED  BY <1>t, <2>1, <2>2, CrewKept
<1>6. ASSUME NEW j \in GateJobs, StartConcat(j) PROVE CrewInv'
  <2>1. Acquire(registered, Concat(j)) /\ crew' = crew
    BY <1>6 DEF StartConcat
  <2>2. Busy' \subseteq Busy \cup {Concat(j)} /\ Concat(j) = Concat(Concat(j)[1])
    BY <1>t, <2>1, AcquireAsks DEF Concat
  <2> QED  BY <1>t, <2>1, <2>2, CrewKept
<1>7. ASSUME NEW j \in GateJobs, ConcatEnds(j) PROVE CrewInv'
  <2>1. /\ Concat(j) \in encoding /\ crew' = crew
        /\ Drain(registered, gateActive - 1, encoding \ {Concat(j)})
    BY <1>7 DEF ConcatEnds
  <2>2. Busy' \subseteq Busy
    BY <2>1, DrainAfter
  <2> QED  BY <1>t, <2>1, <2>2, CrewKept
<1>8. CASE UNCHANGED gateVars
  BY <1>8 DEF gateVars, CrewInv, Working, Busy, WaitingClips
<1> QED  BY <1>1, <1>2, <1>3, <1>4, <1>5, <1>6, <1>7, <1>8 DEF GateNext, ExportSteps

\* Every variable of the gate stays in its range: the crew of an export is never
\* taken below its clips under way, however many of its parts fail.
THEOREM GateStaysTyped == GateSpec => []GateTypeOK
<1>1. GateInv /\ CrewInv => GateTypeOK
  BY DEF GateInv, GateTypes, CrewInv, GateTypeOK
<1> QED  BY <1>1, InitGates, GateStep, CrewStart, CrewStep, PTL DEF GateSpec

-----------------------------------------------------------------------------
\* Who waits is in the queue once.
QueueInv ==
  /\ \A i \in 1 .. Len(queue) : state[queue[i]] = "queued"
  /\ \A i, j \in 1 .. Len(queue) : queue[i] = queue[j] => i = j

\* Who is past the queue holds a daemon of the pool.
HolderInv ==
  \A r \in Detections :
    /\ state[r] \in Holding <=> daemonOf[r] # 0
    /\ daemonOf[r] <= poolSize

\* A process that is gone works for nobody; a reply in the pipe answers the
\* request that is pending, and it is the only one.
ProcessInv ==
  \A d \in Daemons :
    /\ process[d] \in {"off", "gone"} => work[d] = Nobody
    /\ process[d] = "off" => asked[d] = Nobody
    /\ line[d] => work[d] = Nobody /\ asked[d] # Nobody
    /\ asked[d] # Nobody => daemonOf[asked[d]] = d /\ state[asked[d]] = "asking"
    /\ work[d] # Nobody => work[d] = asked[d]

PoolInv == QueueInv /\ HolderInv /\ NoDaemonIdlesWhileSomeWait /\ EveryBusyDaemonHasOneHolder
DetectInv == DetectTypeOK /\ PoolInv /\ ProcessInv

PoolTypes ==
  /\ poolSize \in Daemons /\ queue \in Seq(Detections)
  /\ state \in [Detections -> Holding \cup {"idle", "queued"}]
  /\ daemonOf \in [Detections -> Daemons \cup {0}]
ProcessTypes ==
  /\ process \in [Daemons -> {"off", "on", "hung", "gone"}]
  /\ asked \in [Daemons -> Detections \cup {Nobody}]
  /\ work \in [Daemons -> Detections \cup {Nobody}]
  /\ deaths \in 0 .. MaxDeaths
FlagTypes ==
  /\ busy \in [Daemons -> BOOLEAN] /\ line \in [Daemons -> BOOLEAN]
  /\ late \in [Daemons -> BOOLEAN] /\ tornLine \in [Daemons -> BOOLEAN]
Types == PoolTypes /\ ProcessTypes /\ FlagTypes

\* The constants as the proofs use them.
LEMMA DaemonFacts ==
  /\ MaxDaemons \in Nat /\ MaxDeaths \in Nat /\ 1 \in Daemons /\ Daemons \subseteq Nat
       /\ 0 \notin Daemons
  /\ Nobody \notin Detections
  BY DetectAssumption DEF Daemons, Nobody

\* The head and the tail of a queue by their places.
LEMMA HeadTail ==
  ASSUME NEW q \in Seq(Detections), q # <<>>
  PROVE /\ Head(q) \in Detections /\ Tail(q) \in Seq(Detections) /\ Head(q) = q[1]
             /\ 1 \in 1 .. Len(q)
        /\ Len(q) \in Nat /\ Len(Tail(q)) = Len(q) - 1
        /\ \A i \in 1 .. Len(Tail(q)) : Tail(q)[i] = q[i + 1] /\ i + 1 \in 1 .. Len(q)
  OBVIOUS

\* A queue with one more by its places.
LEMMA Appended ==
  ASSUME NEW q \in Seq(Detections), NEW r \in Detections
  PROVE /\ Append(q, r) \in Seq(Detections) /\ Len(q) \in Nat /\ Len(Append(q, r)) = Len(q) + 1
        /\ \A i \in 1 .. Len(q) : Append(q, r)[i] = q[i] /\ q[i] \in Detections
        /\ Append(q, r)[Len(q) + 1] = r
  OBVIOUS

\* What a detection gets: a daemon nobody holds, with nobody in the queue, or
\* its place behind a pool that is full and busy.
Grants(r, d) ==
  /\ d \in 1 .. poolSize' /\ poolSize <= poolSize' /\ poolSize' \in Daemons
  /\ queue = <<>> /\ queue' = queue
  /\ \A s \in Detections : daemonOf[s] # d
  /\ busy' = [busy EXCEPT ![d] = TRUE]
  /\ daemonOf' = [daemonOf EXCEPT ![r] = d]
  /\ state' = [state EXCEPT ![r] = "granted"]
Queues(r) ==
  /\ \A d \in Daemons : busy[d]
  /\ poolSize = MaxDaemons
  /\ queue' = Append(queue, r)
  /\ state' = [state EXCEPT ![r] = "queued"]
  /\ UNCHANGED <<poolSize, busy, daemonOf>>

\* A detection is granted a daemon that is free, or queues behind a pool that is
\* full and busy.
LEMMA DetectGets ==
  ASSUME Types, PoolInv, NEW r \in Detections, Detect(r)
  PROVE (\E d \in Daemons : Grants(r, d)) \/ Queues(r)
<1> USE DaemonFacts DEF Types, PoolTypes
<1>1. Idlers \subseteq Daemons /\ \A d \in Idlers : d <= poolSize /\ ~ busy[d]
  BY DEF Idlers, Daemons
<1>2. CASE Idlers = {} /\ poolSize = MaxDaemons /\ queue' = Append(queue, r)
           /\ state' = [state EXCEPT ![r] = "queued"] /\ UNCHANGED <<poolSize, busy, daemonOf>>
  BY <1>2 DEF Queues, Idlers, Daemons
<1>3. ASSUME NEW d \in Daemons,
             \/ d \in Idlers /\ (\A e \in Idlers : d <= e) /\ UNCHANGED poolSize
             \/ Idlers = {} /\ d = poolSize + 1 /\ poolSize' = d,
             busy' = [busy EXCEPT ![d] = TRUE], daemonOf' = [daemonOf EXCEPT ![r] = d],
             state' = [state EXCEPT ![r] = "granted"], UNCHANGED queue
      PROVE Grants(r, d)
  <2>1. queue = <<>> /\ \A s \in Detections : daemonOf[s] # d
    <3>1. CASE d \in Idlers
      BY <3>1, <1>1 DEF PoolInv, NoDaemonIdlesWhileSomeWait, EveryBusyDaemonHasOneHolder
    <3>2. CASE Idlers = {} /\ d = poolSize + 1
      BY <3>2 DEF PoolInv, NoDaemonIdlesWhileSomeWait, HolderInv, Daemons
    <3> QED
      BY <1>3, <3>1, <3>2
  <2>2. d \in 1 .. poolSize' /\ poolSize <= poolSize' /\ poolSize' \in Daemons
    BY <1>1, <1>3 DEF Daemons
  <2> QED
    BY <1>3, <2>1, <2>2 DEF Grants
<1> QED
  BY <1>2, <1>3 DEF Detect

\* The daemon of r passes to the first in line, or back to the pool.
PassesOn(r) ==
  /\ queue # <<>> /\ queue' = Tail(queue)
  /\ Head(queue) \in Detections /\ Head(queue) # r /\ daemonOf[Head(queue)] = 0
  /\ daemonOf' = [daemonOf EXCEPT ![Head(queue)] = daemonOf[r], ![r] = 0]
  /\ state' = [state EXCEPT ![Head(queue)] = "granted", ![r] = "idle"]
  /\ UNCHANGED <<poolSize, busy>>
Returns(r) ==
  /\ queue = <<>> /\ queue' = queue
  /\ daemonOf' = [daemonOf EXCEPT ![r] = 0]
  /\ state' = [state EXCEPT ![r] = "idle"]
  /\ busy' = [busy EXCEPT ![daemonOf[r]] = FALSE]
  /\ UNCHANGED poolSize

\* A daemon that is released goes to the head of the queue, or is free.
LEMMA ReleaseGives ==
  ASSUME Types, PoolInv, NEW r \in Detections, Release(r)
  PROVE /\ state[r] = "resolved" /\ daemonOf[r] \in Daemons
        /\ PassesOn(r) \/ Returns(r)
<1> USE DEF Types, PoolTypes, PoolInv, HolderInv, QueueInv, Holding
<1>1. state[r] = "resolved" /\ daemonOf[r] \in Daemons
  BY DEF Release
<1>2. CASE queue # <<>>
  <2>1. Head(queue) \in Detections /\ state[Head(queue)] = "queued"
    BY <1>2, HeadTail
  <2>2. Head(queue) # r /\ daemonOf[Head(queue)] = 0
    BY <1>1, <2>1
  <2> QED
    BY <1>1, <1>2, <2>1, <2>2 DEF Release, PassesOn
<1>3. CASE queue = <<>>
  BY <1>1, <1>3 DEF Release, Returns
<1> QED
  BY <1>1, <1>2, <1>3

\* Each part of the type is kept by every step.
LEMMA PoolTypesStep == ASSUME Types, PoolInv, DetectNext PROVE PoolTypes'
<1> USE DaemonFacts DEF Types, PoolTypes, ProcessTypes, Holding
<1>1. ASSUME NEW r \in Detections, Detect(r) PROVE PoolTypes'
  <2>1. ASSUME NEW d \in Daemons, Grants(r, d) PROVE PoolTypes'
    BY <1>1, <2>1 DEF Grants, Detect
  <2>2. CASE Queues(r)
    BY <1>1, <2>2, Appended DEF Queues, Detect
  <2> QED
    BY <1>1, <2>1, <2>2, DetectGets
<1>2. ASSUME NEW r \in Detections, Ask(r) PROVE PoolTypes'
  BY <1>2 DEF Ask, poolVars, pipeVars
<1>3. ASSUME NEW r \in Detections, OneShotEnds(r) PROVE PoolTypes'
  BY <1>3 DEF OneShotEnds, poolVars, pipeVars
<1>4. ASSUME NEW r \in Detections, Release(r) PROVE PoolTypes'
  <2>1. state[r] = "resolved" /\ daemonOf[r] \in Daemons
    BY <1>4, ReleaseGives
  <2>2. CASE PassesOn(r)
    BY <2>1, <2>2, HeadTail DEF PassesOn
  <2>3. CASE Returns(r)
    BY <2>1, <2>3 DEF Returns
  <2> QED
    BY <1>4, <2>2, <2>3, ReleaseGives
<1>5. ASSUME NEW d \in Daemons, Reply(d) PROVE PoolTypes'
  BY <1>5 DEF Reply, poolVars, pipeVars
<1>6. ASSUME NEW d \in Daemons, ReadLine(d) PROVE PoolTypes'
  BY <1>6 DEF ReadLine, poolVars, pipeVars
<1>7. ASSUME NEW d \in Daemons, ReadLate(d) PROVE PoolTypes'
  BY <1>7 DEF ReadLate, poolVars, pipeVars
<1>8. ASSUME NEW d \in Daemons, Hangs(d) PROVE PoolTypes'
  BY <1>8 DEF Hangs, poolVars, pipeVars
<1>9. ASSUME NEW d \in Daemons, Dies(d) PROVE PoolTypes'
  BY <1>9 DEF Dies, poolVars, pipeVars
<1>10. ASSUME NEW d \in Daemons, Watchdog(d) PROVE PoolTypes'
  BY <1>10 DEF Watchdog, poolVars, pipeVars
<1>11. ASSUME NEW d \in Daemons, ExitEvent(d) PROVE PoolTypes'
  BY <1>11 DEF ExitEvent, poolVars, pipeVars
<1> QED
  BY <1>1, <1>2, <1>3, <1>4, <1>5, <1>6, <1>7, <1>8, <1>9, <1>10, <1>11 DEF DetectNext

LEMMA ProcessTypesStep == ASSUME Types, DetectNext PROVE ProcessTypes'
<1> USE DaemonFacts DEF Types, PoolTypes, ProcessTypes, Holding
<1>1. ASSUME NEW r \in Detections, Detect(r) PROVE ProcessTypes'
  BY <1>1 DEF Detect, poolVars, pipeVars
<1>2. ASSUME NEW r \in Detections, Ask(r) PROVE ProcessTypes'
  BY <1>2 DEF Ask, poolVars, pipeVars
<1>3. ASSUME NEW r \in Detections, OneShotEnds(r) PROVE ProcessTypes'
  BY <1>3 DEF OneShotEnds, poolVars, pipeVars
<1>4. ASSUME NEW r \in Detections, Release(r) PROVE ProcessTypes'
  BY <1>4 DEF Release, poolVars, pipeVars
<1>5. ASSUME NEW d \in Daemons, Reply(d) PROVE ProcessTypes'
  BY <1>5 DEF Reply, poolVars, pipeVars
<1>6. ASSUME NEW d \in Daemons, ReadLine(d) PROVE ProcessTypes'
  BY <1>6 DEF ReadLine, poolVars, pipeVars
<1>7. ASSUME NEW d \in Daemons, ReadLate(d) PROVE ProcessTypes'
  BY <1>7 DEF ReadLate, poolVars, pipeVars
<1>8. ASSUME NEW d \in Daemons, Hangs(d) PROVE ProcessTypes'
  BY <1>8 DEF Hangs, poolVars, pipeVars
<1>9. ASSUME NEW d \in Daemons, Dies(d) PROVE ProcessTypes'
  BY <1>9 DEF Dies, poolVars, pipeVars
<1>10. ASSUME NEW d \in Daemons, Watchdog(d) PROVE ProcessTypes'
  BY <1>10 DEF Watchdog, poolVars, pipeVars
<1>11. ASSUME NEW d \in Daemons, ExitEvent(d) PROVE ProcessTypes'
  BY <1>11 DEF ExitEvent, poolVars, pipeVars
<1> QED
  BY <1>1, <1>2, <1>3, <1>4, <1>5, <1>6, <1>7, <1>8, <1>9, <1>10, <1>11 DEF DetectNext

LEMMA FlagTypesStep == ASSUME Types, DetectNext PROVE FlagTypes'
<1> USE DEF Types, FlagTypes
<1>1. ASSUME NEW r \in Detections, Detect(r) PROVE FlagTypes'
  BY <1>1 DEF Detect, poolVars, pipeVars
<1>2. ASSUME NEW r \in Detections, Ask(r) PROVE FlagTypes'
  BY <1>2 DEF Ask, poolVars, pipeVars
<1>3. ASSUME NEW r \in Detections, OneShotEnds(r) PROVE FlagTypes'
  BY <1>3 DEF OneShotEnds, poolVars, pipeVars
<1>4. ASSUME NEW r \in Detections, Release(r) PROVE FlagTypes'
  BY <1>4 DEF Release, poolVars, pipeVars
<1>5. ASSUME NEW d \in Daemons, Reply(d) PROVE FlagTypes'
  BY <1>5 DEF Reply, poolVars, pipeVars
<1>6. ASSUME NEW d \in Daemons, ReadLine(d) PROVE FlagTypes'
  BY <1>6 DEF ReadLine, poolVars, pipeVars
<1>7. ASSUME NEW d \in Daemons, ReadLate(d) PROVE FlagTypes'
  BY <1>7 DEF ReadLate, poolVars, pipeVars
<1>8. ASSUME NEW d \in Daemons, Hangs(d) PROVE FlagTypes'
  BY <1>8 DEF Hangs, poolVars, pipeVars
<1>9. ASSUME NEW d \in Daemons, Dies(d) PROVE FlagTypes'
  BY <1>9 DEF Dies, poolVars, pipeVars
<1>10. ASSUME NEW d \in Daemons, Watchdog(d) PROVE FlagTypes'
  BY <1>10 DEF Watchdog, poolVars, pipeVars
<1>11. ASSUME NEW d \in Daemons, ExitEvent(d) PROVE FlagTypes'
  BY <1>11 DEF ExitEvent, poolVars, pipeVars
<1> QED
  BY <1>1, <1>2, <1>3, <1>4, <1>5, <1>6, <1>7, <1>8, <1>9, <1>10, <1>11 DEF DetectNext

\* Who waits stays in the queue once.
LEMMA QueueStep == ASSUME Types, PoolInv, ProcessInv, DetectNext PROVE QueueInv'
<1> USE DaemonFacts DEF Types, PoolTypes, ProcessTypes, Holding, PoolInv, QueueInv, ProcessInv
<1>1. ASSUME NEW r \in Detections, Detect(r) PROVE QueueInv'
  <2>1. ASSUME NEW d \in Daemons, Grants(r, d) PROVE QueueInv'
    BY <1>1, <2>1 DEF Grants, Detect
  <2>2. CASE Queues(r)
    BY <1>1, <2>2, Appended DEF Queues, Detect
  <2> QED
    BY <1>1, <2>1, <2>2, DetectGets
<1>2. ASSUME NEW r \in Detections, Ask(r) PROVE QueueInv'
  BY <1>2 DEF Ask, poolVars, pipeVars
<1>3. ASSUME NEW r \in Detections, OneShotEnds(r) PROVE QueueInv'
  BY <1>3 DEF OneShotEnds, poolVars, pipeVars
<1>4. ASSUME NEW r \in Detections, Release(r) PROVE QueueInv'
  <2>1. state[r] = "resolved" /\ daemonOf[r] \in Daemons
    BY <1>4, ReleaseGives
  <2>2. CASE PassesOn(r)
    BY <2>1, <2>2, HeadTail DEF PassesOn
  <2>3. CASE Returns(r)
    BY <2>1, <2>3 DEF Returns
  <2> QED
    BY <1>4, <2>2, <2>3, ReleaseGives
<1>5. ASSUME NEW d \in Daemons, Reply(d) PROVE QueueInv'
  BY <1>5 DEF Reply, poolVars, pipeVars
<1>6. ASSUME NEW d \in Daemons, ReadLine(d) PROVE QueueInv'
  BY <1>6 DEF ReadLine, poolVars, pipeVars
<1>7. ASSUME NEW d \in Daemons, ReadLate(d) PROVE QueueInv'
  BY <1>7 DEF ReadLate, poolVars, pipeVars
<1>8. ASSUME NEW d \in Daemons, Hangs(d) PROVE QueueInv'
  BY <1>8 DEF Hangs, poolVars, pipeVars
<1>9. ASSUME NEW d \in Daemons, Dies(d) PROVE QueueInv'
  BY <1>9 DEF Dies, poolVars, pipeVars
<1>10. ASSUME NEW d \in Daemons, Watchdog(d) PROVE QueueInv'
  BY <1>10 DEF Watchdog, poolVars, pipeVars
<1>11. ASSUME NEW d \in Daemons, ExitEvent(d) PROVE QueueInv'
  BY <1>11 DEF ExitEvent, poolVars, pipeVars
<1> QED
  BY <1>1, <1>2, <1>3, <1>4, <1>5, <1>6, <1>7, <1>8, <1>9, <1>10, <1>11 DEF DetectNext

\* Who is past the queue holds a daemon.
LEMMA HolderStep == ASSUME Types, PoolInv, ProcessInv, DetectNext PROVE HolderInv'
<1> USE DaemonFacts DEF Types, PoolTypes, ProcessTypes, Holding, PoolInv, QueueInv, HolderInv,
      ProcessInv
<1>1. ASSUME NEW r \in Detections, Detect(r) PROVE HolderInv'
  <2>1. ASSUME NEW d \in Daemons, Grants(r, d) PROVE HolderInv'
    <3>1. ASSUME NEW s \in Detections PROVE daemonOf'[s] <= poolSize'
                   /\ (state'[s] \in Holding <=> daemonOf'[s] # 0)
      <4>1. CASE s = r
        BY <2>1, <4>1 DEF Grants
      <4>2. CASE s # r
        <5>1. daemonOf'[s] = daemonOf[s] /\ state'[s] = state[s] /\ poolSize <= poolSize'
                /\ poolSize' \in Nat
          BY <2>1, <4>2 DEF Grants
        <5>2. daemonOf[s] \in Nat /\ poolSize \in Nat /\ daemonOf[s] <= poolSize
          OBVIOUS
        <5>3. state[s] \in Holding <=> daemonOf[s] # 0
          OBVIOUS
        <5>4. daemonOf'[s] <= poolSize'
          BY <5>1, <5>2
        <5> QED
          BY <5>1, <5>3, <5>4
      <4> QED
        BY <4>1, <4>2
    <3> QED
      BY <3>1
  <2>2. CASE Queues(r)
    BY <1>1, <2>2, Appended DEF Queues, Detect
  <2> QED
    BY <1>1, <2>1, <2>2, DetectGets
<1>2. ASSUME NEW r \in Detections, Ask(r) PROVE HolderInv'
  BY <1>2 DEF Ask, poolVars, pipeVars
<1>3. ASSUME NEW r \in Detections, OneShotEnds(r) PROVE HolderInv'
  BY <1>3 DEF OneShotEnds, poolVars, pipeVars
<1>4. ASSUME NEW r \in Detections, Release(r) PROVE HolderInv'
  <2>1. state[r] = "resolved" /\ daemonOf[r] \in Daemons
    BY <1>4, ReleaseGives
  <2>2. CASE PassesOn(r)
    BY <2>1, <2>2, HeadTail DEF PassesOn
  <2>3. CASE Returns(r)
    BY <2>1, <2>3 DEF Returns
  <2> QED
    BY <1>4, <2>2, <2>3, ReleaseGives
<1>5. ASSUME NEW d \in Daemons, Reply(d) PROVE HolderInv'
  BY <1>5 DEF Reply, poolVars, pipeVars
<1>6. ASSUME NEW d \in Daemons, ReadLine(d) PROVE HolderInv'
  BY <1>6 DEF ReadLine, poolVars, pipeVars
<1>7. ASSUME NEW d \in Daemons, ReadLate(d) PROVE HolderInv'
  BY <1>7 DEF ReadLate, poolVars, pipeVars
<1>8. ASSUME NEW d \in Daemons, Hangs(d) PROVE HolderInv'
  BY <1>8 DEF Hangs, poolVars, pipeVars
<1>9. ASSUME NEW d \in Daemons, Dies(d) PROVE HolderInv'
  BY <1>9 DEF Dies, poolVars, pipeVars
<1>10. ASSUME NEW d \in Daemons, Watchdog(d) PROVE HolderInv'
  BY <1>10 DEF Watchdog, poolVars, pipeVars
<1>11. ASSUME NEW d \in Daemons, ExitEvent(d) PROVE HolderInv'
  BY <1>11 DEF ExitEvent, poolVars, pipeVars
<1> QED
  BY <1>1, <1>2, <1>3, <1>4, <1>5, <1>6, <1>7, <1>8, <1>9, <1>10, <1>11 DEF DetectNext

\* No daemon is free while a detection waits.
LEMMA NobodyIdlesStep == ASSUME Types, PoolInv, DetectNext PROVE NoDaemonIdlesWhileSomeWait'
<1> USE DaemonFacts DEF Types, PoolTypes, FlagTypes, PoolInv, NoDaemonIdlesWhileSomeWait
<1>1. ASSUME NEW r \in Detections, Detect(r) PROVE NoDaemonIdlesWhileSomeWait'
  <2>1. ASSUME NEW d \in Daemons, Grants(r, d) PROVE NoDaemonIdlesWhileSomeWait'
    BY <1>1, <2>1 DEF Grants, Detect
  <2>2. CASE Queues(r)
    BY <1>1, <2>2, Appended DEF Queues, Detect
  <2> QED
    BY <1>1, <2>1, <2>2, DetectGets
<1>2. ASSUME NEW r \in Detections, Ask(r) PROVE NoDaemonIdlesWhileSomeWait'
  BY <1>2 DEF Ask, poolVars, pipeVars
<1>3. ASSUME NEW r \in Detections, OneShotEnds(r) PROVE NoDaemonIdlesWhileSomeWait'
  BY <1>3 DEF OneShotEnds, poolVars, pipeVars
<1>4. ASSUME NEW r \in Detections, Release(r) PROVE NoDaemonIdlesWhileSomeWait'
  <2>1. state[r] = "resolved" /\ daemonOf[r] \in Daemons
    BY <1>4, ReleaseGives
  <2>2. CASE PassesOn(r)
    BY <2>1, <2>2, HeadTail DEF PassesOn
  <2>3. CASE Returns(r)
    BY <2>1, <2>3 DEF Returns
  <2> QED
    BY <1>4, <2>2, <2>3, ReleaseGives
<1>5. ASSUME NEW d \in Daemons, Reply(d) PROVE NoDaemonIdlesWhileSomeWait'
  BY <1>5 DEF Reply, poolVars, pipeVars
<1>6. ASSUME NEW d \in Daemons, ReadLine(d) PROVE NoDaemonIdlesWhileSomeWait'
  BY <1>6 DEF ReadLine, poolVars, pipeVars
<1>7. ASSUME NEW d \in Daemons, ReadLate(d) PROVE NoDaemonIdlesWhileSomeWait'
  BY <1>7 DEF ReadLate, poolVars, pipeVars
<1>8. ASSUME NEW d \in Daemons, Hangs(d) PROVE NoDaemonIdlesWhileSomeWait'
  BY <1>8 DEF Hangs, poolVars, pipeVars
<1>9. ASSUME NEW d \in Daemons, Dies(d) PROVE NoDaemonIdlesWhileSomeWait'
  BY <1>9 DEF Dies, poolVars, pipeVars
<1>10. ASSUME NEW d \in Daemons, Watchdog(d) PROVE NoDaemonIdlesWhileSomeWait'
  BY <1>10 DEF Watchdog, poolVars, pipeVars
<1>11. ASSUME NEW d \in Daemons, ExitEvent(d) PROVE NoDaemonIdlesWhileSomeWait'
  BY <1>11 DEF ExitEvent, poolVars, pipeVars
<1> QED
  BY <1>1, <1>2, <1>3, <1>4, <1>5, <1>6, <1>7, <1>8, <1>9, <1>10, <1>11 DEF DetectNext

\* A busy daemon has one holder.
LEMMA OneHolderStep == ASSUME Types, PoolInv, DetectNext PROVE EveryBusyDaemonHasOneHolder'
<1> USE DaemonFacts DEF Types, PoolTypes, FlagTypes, PoolInv, QueueInv, HolderInv,
      EveryBusyDaemonHasOneHolder
<1>1. ASSUME NEW r \in Detections, Detect(r) PROVE EveryBusyDaemonHasOneHolder'
  <2>1. ASSUME NEW d \in Daemons, Grants(r, d) PROVE EveryBusyDaemonHasOneHolder'
    <3>1. \A s \in Detections : daemonOf'[s] = IF s = r THEN d ELSE daemonOf[s]
      BY <2>1 DEF Grants
    <3>2. \A e \in Daemons : busy'[e] <=> (e = d \/ busy[e])
      BY <2>1 DEF Grants
    <3>3. daemonOf[r] = 0
      BY <1>1 DEF Detect, Holding
    <3>4. \A s \in Detections : daemonOf[s] # d
      BY <2>1 DEF Grants
    <3>5. \A e \in Daemons :
            (\E s \in Detections : daemonOf'[s] = e) <=> (e = d
              \/ \E s \in Detections : daemonOf[s] = e)
      BY <3>1, <3>3
    <3>6. \A e \in Daemons : busy'[e] <=> \E s \in Detections : daemonOf'[s] = e
      BY <3>2, <3>5, Zenon
    <3>7. \A e \in Daemons : \A s, t \in Detections : daemonOf'[s] = e /\ daemonOf'[t] = e
            => s = t
      BY <3>1, <3>4
    <3> QED
      BY <3>6, <3>7
  <2>2. CASE Queues(r)
    BY <1>1, <2>2, Appended DEF Queues, Detect
  <2> QED
    BY <1>1, <2>1, <2>2, DetectGets
<1>2. ASSUME NEW r \in Detections, Ask(r) PROVE EveryBusyDaemonHasOneHolder'
  BY <1>2 DEF Ask, poolVars, pipeVars
<1>3. ASSUME NEW r \in Detections, OneShotEnds(r) PROVE EveryBusyDaemonHasOneHolder'
  BY <1>3 DEF OneShotEnds, poolVars, pipeVars
<1>4. ASSUME NEW r \in Detections, Release(r) PROVE EveryBusyDaemonHasOneHolder'
  <2>1. state[r] = "resolved" /\ daemonOf[r] \in Daemons
    BY <1>4, ReleaseGives
  <2>2. CASE PassesOn(r)
    <3> DEFINE n == Head(queue)
    <3>1. n \in Detections /\ n # r /\ daemonOf[n] = 0 /\ busy' = busy
      BY <2>2 DEF PassesOn
    <3>2. \A s \in Detections :
            daemonOf'[s] = IF s = r THEN 0 ELSE IF s = n THEN daemonOf[r] ELSE daemonOf[s]
      BY <2>2, <3>1 DEF PassesOn
    <3> HIDE DEF n
    <3>3. \A e \in Daemons :
            (\E s \in Detections : daemonOf'[s] = e) <=> \E s \in Detections : daemonOf[s] = e
      BY <2>1, <3>1, <3>2
    <3>4. \A e \in Daemons : \A s, t \in Detections : daemonOf'[s] = e /\ daemonOf'[t] = e
            => s = t
      BY <2>1, <3>1, <3>2
    <3> QED
      BY <3>1, <3>3, <3>4, Zenon DEF EveryBusyDaemonHasOneHolder, PoolInv
  <2>3. CASE Returns(r)
    BY <2>1, <2>3 DEF Returns
  <2> QED
    BY <1>4, <2>2, <2>3, ReleaseGives
<1>5. ASSUME NEW d \in Daemons, Reply(d) PROVE EveryBusyDaemonHasOneHolder'
  BY <1>5 DEF Reply, poolVars, pipeVars
<1>6. ASSUME NEW d \in Daemons, ReadLine(d) PROVE EveryBusyDaemonHasOneHolder'
  BY <1>6 DEF ReadLine, poolVars, pipeVars
<1>7. ASSUME NEW d \in Daemons, ReadLate(d) PROVE EveryBusyDaemonHasOneHolder'
  BY <1>7 DEF ReadLate, poolVars, pipeVars
<1>8. ASSUME NEW d \in Daemons, Hangs(d) PROVE EveryBusyDaemonHasOneHolder'
  BY <1>8 DEF Hangs, poolVars, pipeVars
<1>9. ASSUME NEW d \in Daemons, Dies(d) PROVE EveryBusyDaemonHasOneHolder'
  BY <1>9 DEF Dies, poolVars, pipeVars
<1>10. ASSUME NEW d \in Daemons, Watchdog(d) PROVE EveryBusyDaemonHasOneHolder'
  BY <1>10 DEF Watchdog, poolVars, pipeVars
<1>11. ASSUME NEW d \in Daemons, ExitEvent(d) PROVE EveryBusyDaemonHasOneHolder'
  BY <1>11 DEF ExitEvent, poolVars, pipeVars
<1> QED
  BY <1>1, <1>2, <1>3, <1>4, <1>5, <1>6, <1>7, <1>8, <1>9, <1>10, <1>11 DEF DetectNext

\* The process of a daemon works for who asked it, and what is in its pipe answers
\* the request that is pending: a kill or a death drops both.
LEMMA ProcessStep == ASSUME Types, PoolInv, ProcessInv, DetectNext PROVE ProcessInv'
<1> USE DaemonFacts DEF Types, PoolTypes, ProcessTypes, FlagTypes, PoolInv, QueueInv, HolderInv,
      EveryBusyDaemonHasOneHolder, ProcessInv
<1>1. ASSUME NEW r \in Detections, Detect(r) PROVE ProcessInv'
  BY <1>1 DEF Detect, poolVars, pipeVars
<1>2. ASSUME NEW r \in Detections, Ask(r) PROVE ProcessInv'
  BY <1>2 DEF Ask, poolVars, pipeVars
<1>3. ASSUME NEW r \in Detections, OneShotEnds(r) PROVE ProcessInv'
  BY <1>3 DEF OneShotEnds, poolVars, pipeVars
<1>4. ASSUME NEW r \in Detections, Release(r) PROVE ProcessInv'
  BY <1>4 DEF Release, poolVars, pipeVars
<1>5. ASSUME NEW d \in Daemons, Reply(d) PROVE ProcessInv'
  BY <1>5 DEF Reply, poolVars, pipeVars
<1>6. ASSUME NEW d \in Daemons, ReadLine(d) PROVE ProcessInv'
  BY <1>6 DEF ReadLine, poolVars, pipeVars
<1>7. ASSUME NEW d \in Daemons, ReadLate(d) PROVE ProcessInv'
  BY <1>7 DEF ReadLate, poolVars, pipeVars
<1>8. ASSUME NEW d \in Daemons, Hangs(d) PROVE ProcessInv'
  BY <1>8 DEF Hangs, poolVars, pipeVars
<1>9. ASSUME NEW d \in Daemons, Dies(d) PROVE ProcessInv'
  BY <1>9 DEF Dies, poolVars, pipeVars
<1>10. ASSUME NEW d \in Daemons, Watchdog(d) PROVE ProcessInv'
  BY <1>10 DEF Watchdog, poolVars, pipeVars
<1>11. ASSUME NEW d \in Daemons, ExitEvent(d) PROVE ProcessInv'
  BY <1>11 DEF ExitEvent, poolVars, pipeVars
<1> QED
  BY <1>1, <1>2, <1>3, <1>4, <1>5, <1>6, <1>7, <1>8, <1>9, <1>10, <1>11 DEF DetectNext

\* The pool is empty at first.
LEMMA DetectInvInit == ASSUME DetectInit PROVE Types /\ PoolInv /\ ProcessInv
<1> USE DaemonFacts DEF DetectInit
<1>1. Types
  BY DEF Types, PoolTypes, ProcessTypes, FlagTypes
<1>2. PoolInv /\ ProcessInv
  BY DEF PoolInv, QueueInv, HolderInv, Holding, NoDaemonIdlesWhileSomeWait,
     EveryBusyDaemonHasOneHolder, ProcessInv
<1> QED
  BY <1>1, <1>2

\* Every step keeps the invariant.
LEMMA DetectInvStep ==
  ASSUME Types, PoolInv, ProcessInv, [DetectNext]_detectVars
  PROVE (Types /\ PoolInv /\ ProcessInv)'
<1>1. CASE DetectNext
  BY <1>1, PoolTypesStep, ProcessTypesStep, FlagTypesStep, QueueStep, HolderStep,
     NobodyIdlesStep, OneHolderStep, ProcessStep
     DEF Types, PoolInv
<1>2. CASE UNCHANGED detectVars
  BY <1>2 DEF detectVars, Types, PoolTypes, ProcessTypes, FlagTypes, PoolInv, QueueInv, HolderInv,
     NoDaemonIdlesWhileSomeWait, EveryBusyDaemonHasOneHolder, ProcessInv
<1> QED
  BY <1>1, <1>2

\* The inductive invariant of the pool.
LEMMA DetectInvHolds == DetectSpec => [](Types /\ PoolInv /\ ProcessInv)
  BY DetectInvInit, DetectInvStep, PTL DEF DetectSpec

\* Every variable of the pool stays in its range (core/scheduler.js,
\* core/sidecars.js).
THEOREM DetectTypes == DetectSpec => []DetectTypeOK
<1>1. Types => DetectTypeOK
  BY DEF Types, PoolTypes, ProcessTypes, FlagTypes, DetectTypeOK
<1> QED
  BY <1>1, DetectInvHolds, PTL

\* A daemon is lent to one detection at a time and never idles while another waits,
\* for any number of detections and daemons, over kills, crashes and replies that
\* come late (makePool of core/scheduler.js and the daemons of core/sidecars.js).
THEOREM EveryDaemonServesItsHolder == DetectSpec => []DaemonsServeTheirHolder
<1>1. Types /\ PoolInv /\ ProcessInv => DaemonsServeTheirHolder
  BY DEF PoolInv, ProcessInv, DaemonsServeTheirHolder, DaemonsAreHandedOver, RepliesGoToTheHolder
<1> QED
  BY <1>1, DetectInvHolds, PTL
-----------------------------------------------------------------------------
\* A set of numbers has a least one.
LEMMA SmallestNat ==
  ASSUME NEW T \in SUBSET Nat, T # {} PROVE \E x \in T : \A y \in T : x <= y
<1> DEFINE Below(x) == 0 .. x - 1
           B == {Below(x) : x \in T}
<1>1. \A x \in Nat : IsFiniteSet(Below(x))
  BY FS_Interval
<1>2. B \subseteq FiniteSubsetsOf(Nat) /\ B # {}
  <2>1. ASSUME NEW x \in T PROVE Below(x) \in FiniteSubsetsOf(Nat)
    <3>1. Below(x) \in SUBSET Nat /\ IsFiniteSet(Below(x))
      BY <1>1
    <3> QED
      BY <3>1 DEF FiniteSubsetsOf
  <2> QED
    BY <2>1
<1>3. PICK b \in B : \A c \in B : <<c, b>> \notin StrictSubsetOrdering(Nat)
  <2> HIDE DEF B
  <2> QED
    BY <1>2, FS_StrictSubsetOrderingWellFounded, WFMin, Zenon
<1>4. PICK x \in T : b = Below(x)
  OBVIOUS
<1>5. ASSUME NEW y \in T, y < x PROVE FALSE
  <2>1. Below(y) \in B /\ Below(y) \subseteq b /\ b \in SUBSET Nat
    BY <1>4, <1>5
  <2>2. y \in b /\ y \notin Below(y)
    BY <1>4, <1>5
  <2>3. <<Below(y), b>> \in StrictSubsetOrdering(Nat)
    BY <2>1, <2>2 DEF StrictSubsetOrdering
  <2> QED
    BY <1>3, <2>1, <2>3
<1> QED
  BY <1>5

-----------------------------------------------------------------------------
ProxyPlaces ==
  {"none", "probing", "checking", "queued", "starting", "encoding", "backoff"} \cup Answers
QueuedIn(places) == {r \in ProxyRequests : places[r] = "queued"}
RunningIn(places) == {r \in ProxyRequests : places[r] \in {"starting", "encoding"}}

\* Line L holds the requests of Q, each once.
Lined(L, Q) ==
  /\ L \in Seq(ProxyRequests)
  /\ \A i, j \in 1 .. Len(L) : L[i] = L[j] => i = j
  /\ {L[i] : i \in 1 .. Len(L)} = Q

\* What proxyPump finds: the lists hold what waits, the counter what runs.
PumpReady(places, high, lw, active) ==
  /\ places \in [ProxyRequests -> ProxyPlaces]
  /\ high \in Seq(ProxyRequests) /\ lw \in Seq(ProxyRequests)
  /\ Lined(TakeOrder(high, lw), QueuedIn(places))
  /\ active = Cardinality(RunningIn(places))

LEMMA TakeOrderIs ==
  ASSUME NEW high \in Seq(ProxyRequests), NEW lw \in Seq(ProxyRequests)
  PROVE  /\ TakeOrder(high, lw) \in Seq(ProxyRequests)
         /\ Len(TakeOrder(high, lw)) = Len(high) + Len(lw)
         /\ \A i \in 1 .. Len(high) + Len(lw) : TakeOrder(high, lw)[i] =
              IF i <= Len(high) THEN high[Len(high) - i + 1] ELSE lw[i - Len(high)]
<1> DEFINE R == Reverse(high)
<1>1. R \in Seq(ProxyRequests) /\ Len(R) = Len(high)
      /\ \A i \in 1 .. Len(high) : R[i] = high[Len(high) - i + 1]
  BY DEF Reverse
<1> HIDE DEF R
<1>2. TakeOrder(high, lw) = R \o lw
  BY DEF TakeOrder, R
<1>3. /\ R \o lw \in Seq(ProxyRequests) /\ Len(R \o lw) = Len(R) + Len(lw)
      /\ \A i \in 1 .. Len(R) + Len(lw) :
           (R \o lw)[i] = IF i <= Len(R) THEN R[i] ELSE lw[i - Len(R)]
  <2>1. R \in Seq(ProxyRequests)
    BY <1>1
  <2> QED
    BY ONLY <2>1, lw \in Seq(ProxyRequests), ConcatProperties, Zenon
<1>4. ASSUME NEW i \in 1 .. Len(high) + Len(lw)
      PROVE  (R \o lw)[i] = IF i <= Len(high) THEN high[Len(high) - i + 1] ELSE lw[i - Len(high)]
  <2>1. (R \o lw)[i] = IF i <= Len(high) THEN R[i] ELSE lw[i - Len(high)]
    BY <1>1, <1>3
  <2> QED
    BY <1>1, <2>1
<1> QED
  BY <1>1, <1>2, <1>3, <1>4

\* The first k of the order leave the lists.
LEMMA FrontTaken ==
  ASSUME NEW high \in Seq(ProxyRequests), NEW lw \in Seq(ProxyRequests),
         NEW k \in 0 .. Len(TakeOrder(high, lw))
  PROVE  LET f == AtMost(k, Len(high))
             h == SubSeq(high, 1, Len(high) - f)
             w == SubSeq(lw, k - f + 1, Len(lw))
             L == TakeOrder(high, lw)
             M == TakeOrder(h, w)
         IN  /\ h \in Seq(ProxyRequests) /\ w \in Seq(ProxyRequests)
             /\ Len(M) = Len(L) - k
             /\ \A i \in 1 .. Len(M) : M[i] = L[k + i]
<1> DEFINE f == AtMost(k, Len(high))
           h == SubSeq(high, 1, Len(high) - f)
           w == SubSeq(lw, k - f + 1, Len(lw))
           L == TakeOrder(high, lw)
           M == TakeOrder(h, w)
<1>1. Len(high) \in Nat /\ Len(lw) \in Nat /\ k \in 0 .. Len(high) + Len(lw)
  <2>1. Len(high) \in Nat /\ Len(lw) \in Nat
    OBVIOUS
  <2>2. Len(TakeOrder(high, lw)) = Len(high) + Len(lw)
    BY TakeOrderIs
  <2> QED
    BY <2>1, <2>2
<1>2. f \in 0 .. Len(high) /\ k - f \in 0 .. Len(lw) /\ (f < Len(high) => k = f)
  BY <1>1 DEF AtMost
<1> HIDE DEF f
<1>3. /\ h \in Seq(ProxyRequests) /\ Len(h) = Len(high) - f
      /\ \A i \in 1 .. Len(high) - f : h[i] = high[i]
  BY <1>1, <1>2
<1>4. /\ w \in Seq(ProxyRequests) /\ Len(w) = Len(lw) - (k - f)
      /\ \A i \in 1 .. Len(lw) - (k - f) : w[i] = lw[k - f + i]
  BY <1>1, <1>2
<1> HIDE DEF h, w
<1>5. /\ Len(M) = Len(high) - f + Len(lw) - (k - f)
      /\ \A i \in 1 .. Len(M) : M[i] = IF i <= Len(h) THEN h[Len(h) - i + 1] ELSE w[i - Len(h)]
  BY <1>1, <1>2, <1>3, <1>4, TakeOrderIs, ZenonT(60)
<1>6. /\ Len(L) = Len(high) + Len(lw)
      /\ \A i \in 1 .. Len(L) : L[i] =
           IF i <= Len(high) THEN high[Len(high) - i + 1] ELSE lw[i - Len(high)]
  BY TakeOrderIs, ZenonT(60)
<1> HIDE DEF L, M
<1>7. Len(M) = Len(L) - k
  BY <1>1, <1>2, <1>5, <1>6
<1>8. ASSUME NEW i \in 1 .. Len(M) PROVE M[i] = L[k + i]
  <2>0. k + i \in 1 .. Len(L)
    BY <1>1, <1>7, <1>6
  <2>1. CASE i <= Len(h)
    <3>1. k = f /\ k + i <= Len(high)
      BY <1>1, <1>2, <1>3, <2>1
    <3>2. M[i] = h[Len(h) - i + 1] /\ L[k + i] = high[Len(high) - (k + i) + 1]
      BY <1>5, <1>6, <2>0, <2>1, <3>1
    <3>3. Len(h) - i + 1 = Len(high) - (k + i) + 1 /\ Len(h) - i + 1 \in 1 .. Len(high) - f
      BY <1>1, <1>2, <1>3, <2>1, <3>1
    <3> QED
      BY <1>3, <3>2, <3>3
  <2>2. CASE ~ (i <= Len(h))
    <3>1. ~ (k + i <= Len(high)) /\ k - f + (i - Len(h)) = k + i - Len(high)
          /\ i - Len(h) \in 1 .. Len(lw) - (k - f)
      BY <1>1, <1>2, <1>3, <1>5, <2>2
    <3>2. M[i] = w[i - Len(h)] /\ L[k + i] = lw[k + i - Len(high)]
      BY <1>5, <1>6, <2>0, <2>2, <3>1
    <3> QED
      BY <1>4, <3>1, <3>2
  <2> QED
    BY <2>1, <2>2
<1> QED
  BY <1>3, <1>4, <1>7, <1>8 DEF f, h, w, L, M

\* One more request in the line.
LEMMA OneMoreLined ==
  ASSUME NEW L, NEW M \in Seq(ProxyRequests), NEW Q, Lined(L, Q), NEW r, r \notin Q,
         NEW p \in 1 .. Len(L) + 1, Len(M) = Len(L) + 1,
         \A i \in 1 .. Len(M) : M[i] = IF i < p THEN L[i] ELSE IF i = p THEN r ELSE L[i - 1]
  PROVE  Lined(M, Q \cup {r})
<1>0. Len(L) \in Nat /\ \A i \in 1 .. Len(L) : L[i] # r
  BY DEF Lined
<1>1. ASSUME NEW i \in 1 .. Len(M), NEW j \in 1 .. Len(M), M[i] = M[j], i < j PROVE FALSE
  <2>1. CASE i = p
    <3>1. j - 1 \in 1 .. Len(L) /\ M[j] = L[j - 1] /\ M[i] = r
      BY <1>0, <1>1, <2>1
    <3> QED
      BY <1>0, <1>1, <3>1
  <2>2. CASE j = p
    <3>1. i \in 1 .. Len(L) /\ M[i] = L[i] /\ M[j] = r
      BY <1>0, <1>1, <2>2
    <3> QED
      BY <1>0, <1>1, <3>1
  <2>3. CASE i # p /\ j # p
    <3> DEFINE a == IF i < p THEN i ELSE i - 1
               b == IF j < p THEN j ELSE j - 1
    <3>1. a \in 1 .. Len(L) /\ b \in 1 .. Len(L) /\ a # b
      BY <1>0, <1>1, <2>3
    <3>2. M[i] = L[a] /\ M[j] = L[b]
      BY <1>0, <1>1, <2>3
    <3> QED
      BY <1>1, <3>1, <3>2 DEF Lined
  <2> QED
    BY <2>1, <2>2, <2>3
<1>2. \A i, j \in 1 .. Len(M) : M[i] = M[j] => i = j
  BY <1>0, <1>1
<1>3. ASSUME NEW i \in 1 .. Len(M) PROVE M[i] \in Q \cup {r}
  <2>1. \/ i = p
        \/ i < p /\ i \in 1 .. Len(L)
        \/ ~ (i < p) /\ i # p /\ i - 1 \in 1 .. Len(L)
    BY <1>0
  <2> QED
    BY <2>1 DEF Lined
<1>4. ASSUME NEW x \in Q \cup {r} PROVE \E i \in 1 .. Len(M) : M[i] = x
  <2>1. CASE x = r
    <3>1. p \in 1 .. Len(M) /\ M[p] = r
      BY <1>0
    <3> QED
      BY <2>1, <3>1
  <2>2. CASE x \in Q
    <3>1. PICK i \in 1 .. Len(L) : L[i] = x
      BY <2>2 DEF Lined
    <3>2. IF i < p THEN i \in 1 .. Len(M) /\ M[i] = x ELSE i + 1 \in 1 .. Len(M) /\ M[i + 1] = x
      BY <1>0, <3>1
    <3> QED
      BY <3>2
  <2> QED
    BY <2>1, <2>2
<1>5. {M[i] : i \in 1 .. Len(M)} = Q \cup {r}
  BY <1>3, <1>4
<1> QED
  BY <1>2, <1>5 DEF Lined

\* What is left of the line once its first k have gone.
LEMMA RestLined ==
  ASSUME NEW L, NEW M \in Seq(ProxyRequests), NEW Q, Lined(L, Q),
         NEW k \in 0 .. Len(L), Len(M) = Len(L) - k, \A i \in 1 .. Len(M) : M[i] = L[k + i]
  PROVE  Lined(M, Q \ {L[i] : i \in 1 .. k})
<1>0. Len(L) \in Nat /\ Len(M) \in Nat
  BY DEF Lined
<1>1. \A i \in 1 .. Len(M) : k + i \in 1 .. Len(L)
  BY <1>0
<1>2. \A i, j \in 1 .. Len(M) : M[i] = M[j] => i = j
  <2>1. ASSUME NEW i \in 1 .. Len(M), NEW j \in 1 .. Len(M), M[i] = M[j] PROVE i = j
    <3>1. k + i = k + j
      BY <1>1, <2>1 DEF Lined
    <3> QED
      BY <3>1
  <2> QED
    BY <2>1
<1>3. ASSUME NEW i \in 1 .. Len(M) PROVE M[i] \in Q \ {L[j] : j \in 1 .. k}
  <2>1. M[i] \in Q
    BY <1>1 DEF Lined
  <2>2. ASSUME NEW j \in 1 .. k, M[i] = L[j] PROVE FALSE
    <3>1. j \in 1 .. Len(L) /\ k + i \in 1 .. Len(L) /\ L[j] = L[k + i] /\ j # k + i
      BY <1>0, <1>1, <2>2
    <3> QED
      BY <3>1 DEF Lined
  <2> QED
    BY <2>1, <2>2
<1>4. ASSUME NEW x \in Q \ {L[j] : j \in 1 .. k} PROVE \E i \in 1 .. Len(M) : M[i] = x
  <2>1. PICK n \in 1 .. Len(L) : L[n] = x
    BY DEF Lined
  <2>2. n \notin 1 .. k
    BY <2>1
  <2>3. n - k \in 1 .. Len(M) /\ k + (n - k) = n
    BY <1>0, <2>2
  <2> QED
    BY <2>1, <2>3
<1>5. {M[i] : i \in 1 .. Len(M)} = Q \ {L[i] : i \in 1 .. k}
  BY <1>3, <1>4
<1> QED
  BY <1>2, <1>5 DEF Lined
-----------------------------------------------------------------------------
\* Among the first k + 1 of the line one more may start than among the first k.
LEMMA StartedGrows ==
  ASSUME ProxyAssumption, NEW L \in Seq(ProxyRequests), NEW C, NEW k \in 0 .. Len(L)
  PROVE  /\ StartedOf(L, C, k) \subseteq ProxyRequests
         /\ IsFiniteSet(StartedOf(L, C, k)) /\ Cardinality(StartedOf(L, C, k)) \in Nat
         /\ StartedOf(L, C, 0) = {}
         /\ k > 0 => StartedOf(L, C, k) \subseteq StartedOf(L, C, k - 1) \cup {L[k]}
<1>0. Len(L) \in Nat
  OBVIOUS
<1>1. StartedOf(L, C, k) \subseteq ProxyRequests
  BY <1>0 DEF StartedOf
<1>2. IsFiniteSet(ProxyRequests)
  BY FS_Interval DEF ProxyRequests, ProxyAssumption
<1>3. IsFiniteSet(StartedOf(L, C, k)) /\ Cardinality(StartedOf(L, C, k)) \in Nat
  BY <1>1, <1>2, FS_Subset, FS_CardinalityType
<1>4. StartedOf(L, C, 0) = {}
  BY DEF StartedOf
<1>5. ASSUME k > 0 PROVE StartedOf(L, C, k) \subseteq StartedOf(L, C, k - 1) \cup {L[k]}
  BY <1>0, <1>5 DEF StartedOf
<1> QED
  BY <1>1, <1>3, <1>4, <1>5

LEMMA StartedByOne ==
  ASSUME ProxyAssumption, NEW L \in Seq(ProxyRequests), NEW C, NEW k \in 1 .. Len(L)
  PROVE  Cardinality(StartedOf(L, C, k)) <= Cardinality(StartedOf(L, C, k - 1)) + 1
<1>0. Len(L) \in Nat /\ k \in 0 .. Len(L) /\ k - 1 \in 0 .. Len(L) /\ k > 0
  OBVIOUS
<1> DEFINE A == StartedOf(L, C, k - 1)
           B == StartedOf(L, C, k)
<1>1. IsFiniteSet(A) /\ Cardinality(A) \in Nat /\ B \subseteq A \cup {L[k]}
  BY <1>0, StartedGrows
<1> HIDE DEF A, B
<1>2. IsFiniteSet(A \cup {L[k]}) /\ Cardinality(A \cup {L[k]}) <= Cardinality(A) + 1
  <2> DEFINE D == A \cup {L[k]}
  <2>1. IsFiniteSet(D) /\ Cardinality(D) = IF L[k] \in A THEN Cardinality(A) ELSE Cardinality(A) + 1
    BY <1>1, FS_AddElement
  <2> HIDE DEF D
  <2>2. IsFiniteSet(D) /\ Cardinality(D) <= Cardinality(A) + 1
    BY <1>1, <2>1
  <2> QED
    BY <2>2 DEF D
<1>3. Cardinality(B) <= Cardinality(A \cup {L[k]}) /\ IsFiniteSet(B)
  BY <1>1, <1>2, FS_Subset
<1>4. Cardinality(B) \in Nat /\ Cardinality(A \cup {L[k]}) \in Nat
  BY <1>2, <1>3, FS_CardinalityType
<1>5. Cardinality(B) <= Cardinality(A) + 1
  BY <1>1, <1>2, <1>3, <1>4
<1> QED
  BY <1>5 DEF A, B

\* The loop of proxyPump ends: when it has filled the room, or at the end of the
\* line with less than that started.
LEMMA ReachIs ==
  ASSUME ProxyAssumption, NEW L \in Seq(ProxyRequests), NEW C, NEW room \in Nat
  PROVE  LET k == Reach(L, C, room) IN
         /\ k \in 0 .. Len(L)
         /\ Cardinality(StartedOf(L, C, k)) = room \/ k = Len(L)
         /\ Cardinality(StartedOf(L, C, k)) <= room
<1> DEFINE N(k) == Cardinality(StartedOf(L, C, k))
           Stops(k) == N(k) = room \/ k = Len(L)
           First(k) == k \in 0 .. Len(L) /\ Stops(k) /\ \A j \in 0 .. k - 1 : N(j) < room
<1>0. Len(L) \in Nat
  OBVIOUS
<1>1. \A k \in 0 .. Len(L) : N(k) \in Nat
  BY StartedGrows
<1>2. N(0) = 0
  <2>1. StartedOf(L, C, 0) = {}
    BY <1>0, StartedGrows
  <2> QED
    BY <2>1, FS_EmptySet
<1>3. \A k \in 1 .. Len(L) : N(k) <= N(k - 1) + 1
  BY StartedByOne
<1> HIDE DEF N
<1>4. PICK k \in {x \in 0 .. Len(L) : Stops(x)} : \A y \in {x \in 0 .. Len(L) : Stops(x)} : k <= y
  <2> DEFINE T == {x \in 0 .. Len(L) : Stops(x)}
  <2>1. T \subseteq Nat /\ Len(L) \in T
    BY <1>0
  <2> HIDE DEF T
  <2>2. \E k \in T : \A y \in T : k <= y
    BY <2>1, SmallestNat
  <2> QED
    BY <2>2 DEF T
<1>5. \A j \in 0 .. k - 1 : N(j) < room
  <2> DEFINE T == {j \in 0 .. k - 1 : ~ (N(j) < room)}
  <2> SUFFICES ASSUME T # {} PROVE FALSE
    OBVIOUS
  <2>1. T \subseteq Nat
    BY <1>0
  <2> HIDE DEF T
  <2>2. PICK j \in T : \A y \in T : j <= y
    BY <2>1, SmallestNat
  <2>3. j \in 0 .. k - 1 /\ j \in 0 .. Len(L) /\ ~ (N(j) < room) /\ N(j) \in Nat
    BY <1>0, <1>1 DEF T
  <2>4. N(j) <= room
    <3>1. CASE j = 0
      BY <1>2, <3>1
    <3>2. CASE j # 0
      <4>1. j - 1 \in 0 .. k - 1 /\ j - 1 \notin T /\ j \in 1 .. Len(L) /\ j - 1 \in 0 .. Len(L)
        BY <1>0, <2>2, <2>3, <3>2
      <4>2. N(j - 1) < room /\ N(j) <= N(j - 1) + 1 /\ N(j - 1) \in Nat
        BY <1>1, <1>3, <4>1 DEF T
      <4> QED
        BY <2>3, <4>2
    <3> QED
      BY <3>1, <3>2
  <2>5. N(j) = room
    BY <2>3, <2>4
  <2> QED
    BY <1>4, <2>3, <2>5
<1>6. First(k)
  BY <1>4, <1>5
<1> HIDE DEF Stops
<1>7. Reach(L, C, room) = CHOOSE x \in 0 .. Len(L) : Stops(x) /\ \A j \in 0 .. x - 1 : N(j) < room
  BY DEF Reach, Stops, N
<1>8. First(Reach(L, C, room))
  BY <1>6, <1>7
<1>9. ASSUME NEW x, First(x) PROVE N(x) <= room
  <2>1. CASE x = 0
    BY <1>2, <2>1
  <2>2. CASE x # 0
    <3>1. x \in 1 .. Len(L) /\ x - 1 \in 0 .. x - 1 /\ x - 1 \in 0 .. Len(L)
      BY <1>0, <1>9, <2>2
    <3>2. N(x - 1) < room /\ N(x) <= N(x - 1) + 1 /\ N(x) \in Nat /\ N(x - 1) \in Nat
      BY <1>1, <1>3, <1>9, <3>1
    <3> QED
      BY <3>2
  <2> QED
    BY <2>1, <2>2
<1> QED
  BY <1>8, <1>9 DEF N, Stops
-----------------------------------------------------------------------------
LEMMA RunningCounted ==
  ASSUME ProxyAssumption, NEW places
  PROVE  IsFiniteSet(RunningIn(places)) /\ Cardinality(RunningIn(places)) \in Nat
<1>1. IsFiniteSet(ProxyRequests)
  BY FS_Interval DEF ProxyRequests, ProxyAssumption
<1>2. RunningIn(places) \subseteq ProxyRequests
  BY DEF RunningIn
<1> QED
  BY <1>1, <1>2, FS_Subset, FS_CardinalityType

\* proxyPump leaves nobody waiting beside a free slot, counts what it starts, and
\* answers as cancelled only requests under a mark.
PumpedFrom(places, C) ==
  /\ cancelled' \subseteq C
  /\ \A r \in ProxyRequests :
       \/ stage'[r] = places[r]
       \/ places[r] = "queued" /\ stage'[r] = "starting"
       \/ places[r] = "queued" /\ stage'[r] = "cancelled" /\ token[r] \in C

LEMMA PumpServes ==
  ASSUME ProxyAssumption,
         NEW places, NEW high, NEW lw, NEW active, NEW limit \in Nat, NEW C,
         PumpReady(places, high, lw, active),
         Pump(places, high, lw, active, limit, C)
  PROVE  /\ PumpReady(stage', qHigh', qLow', proxyActive')
         /\ Len(TakeOrder(qHigh', qLow')) > 0 => proxyActive' >= limit
         /\ PumpedFrom(places, C)
<1> DEFINE L == TakeOrder(high, lw)
           room == IF active < limit THEN limit - active ELSE 0
           k == Reach(L, C, room)
           S == StartedOf(L, C, k)
           D == DroppedOf(L, C, k)
           F == {L[i] : i \in 1 .. k}
           Q == QueuedIn(places)
           M == TakeOrder(qHigh', qLow')
<1>0. /\ high \in Seq(ProxyRequests) /\ lw \in Seq(ProxyRequests) /\ Lined(L, Q)
      /\ places \in [ProxyRequests -> ProxyPlaces]
      /\ active = Cardinality(RunningIn(places)) /\ active \in Nat
  BY RunningCounted DEF PumpReady
<1>1. L \in Seq(ProxyRequests) /\ room \in Nat
  BY <1>0 DEF Lined
<1>2. k \in 0 .. Len(L) /\ (Cardinality(S) = room \/ k = Len(L)) /\ Cardinality(S) <= room
  <2> HIDE DEF L, room
  <2> QED
    BY <1>1, ReachIs
<1>3. /\ qHigh' = SubSeq(high, 1, Len(high) - AtMost(k, Len(high)))
      /\ qLow' = SubSeq(lw, k - AtMost(k, Len(high)) + 1, Len(lw))
      /\ proxyActive' = active + Cardinality(S)
      /\ cancelled' = C \ {token[r] : r \in D}
      /\ stage' = [r \in ProxyRequests |-> CASE r \in S -> "starting"
                                             [] r \in D -> "cancelled"
                                             [] OTHER -> places[r]]
  BY DEF Pump
<1>4. /\ qHigh' \in Seq(ProxyRequests) /\ qLow' \in Seq(ProxyRequests)
      /\ Len(M) = Len(L) - k /\ \A i \in 1 .. Len(M) : M[i] = L[k + i]
  <2> HIDE DEF k
  <2> QED
    BY <1>0, <1>2, <1>3, FrontTaken, ZenonT(60)
<1>5. Len(L) \in Nat /\ 1 .. k \subseteq 1 .. Len(L)
  <2> HIDE DEF k
  <2> QED
    BY <1>1, <1>2
<1>6. S \subseteq F /\ D \subseteq F /\ F \subseteq S \cup D
  BY DEF StartedOf, DroppedOf
<1>7. S \cap D = {}
  <2>1. ASSUME NEW i \in 1 .. k, NEW j \in 1 .. k, ~ Dropped(L, C, i), Dropped(L, C, j), L[i] = L[j]
        PROVE  FALSE
    <3>1. i = j
      BY <1>0, <1>5, <2>1 DEF Lined
    <3> QED
      BY <2>1, <3>1
  <2> QED
    BY <2>1 DEF StartedOf, DroppedOf
<1>8. F \subseteq Q
  BY <1>0, <1>5 DEF Lined
<1>9. \A r \in D : token[r] \in C
  BY DEF DroppedOf, Dropped
<1>10. Lined(M, Q \ F)
  <2>1. M \in Seq(ProxyRequests)
    BY <1>4, TakeOrderIs
  <2> HIDE DEF k, L, M, Q
  <2> QED
    BY <1>0, <1>2, <1>4, <2>1, RestLined
<1> HIDE DEF L, room, k, S, D, F, M
<1>18. stage' = [r \in ProxyRequests |-> IF r \in S THEN "starting"
                                        ELSE IF r \in D THEN "cancelled" ELSE places[r]]
  BY <1>3, <1>7
<1>11. stage' \in [ProxyRequests -> ProxyPlaces]
  BY <1>0, <1>3, <1>18 DEF ProxyPlaces, Answers
<1>12. QueuedIn(stage') = Q \ F
  BY <1>3, <1>18, <1>6, <1>7 DEF QueuedIn
<1>13. /\ RunningIn(stage') = RunningIn(places) \cup S
       /\ RunningIn(places) \cap S = {}
  BY <1>3, <1>18, <1>6, <1>7, <1>8 DEF QueuedIn, RunningIn
<1>14. proxyActive' = Cardinality(RunningIn(stage')) /\ Cardinality(S) \in Nat
  <2>1. IsFiniteSet(RunningIn(places)) /\ IsFiniteSet(RunningIn(stage'))
        /\ Cardinality(RunningIn(places)) \in Nat
    BY RunningCounted
  <2>2. IsFiniteSet(S) /\ Cardinality(S) \in Nat
    BY <1>13, <2>1, FS_Subset, FS_CardinalityType
  <2>3. Cardinality(RunningIn(places) \cup S) =
          Cardinality(RunningIn(places)) + Cardinality(S) - Cardinality(RunningIn(places) \cap S)
    BY <2>1, <2>2, FS_Union
  <2>4. Cardinality(RunningIn(places) \cap S) = 0
    BY <1>13, FS_EmptySet
  <2>5. RunningIn(stage') = RunningIn(places) \cup S
    BY <1>13
  <2> DEFINE a == Cardinality(RunningIn(places))
             b == Cardinality(S)
             c == Cardinality(RunningIn(stage'))
  <2>6. c = a + b - 0 /\ a \in Nat /\ b \in Nat /\ active = a /\ proxyActive' = active + b
    BY <1>0, <1>3, <2>1, <2>2, <2>3, <2>4, <2>5
  <2> HIDE DEF a, b, c
  <2>7. proxyActive' = c /\ b \in Nat
    BY <2>6
  <2> QED
    BY <2>7 DEF b, c
<1>15. PumpReady(stage', qHigh', qLow', proxyActive')
  BY <1>4, <1>10, <1>11, <1>12, <1>14 DEF PumpReady, M
<1>16. Len(M) > 0 => proxyActive' >= limit
  <2> SUFFICES ASSUME Len(M) > 0 PROVE proxyActive' >= limit
    OBVIOUS
  <2>1. k # Len(L) /\ Cardinality(S) = room
    BY <1>2, <1>4, <1>5
  <2> QED
    BY <1>0, <1>3, <2>1 DEF room
<1>17. PumpedFrom(places, C)
  BY <1>3, <1>18, <1>6, <1>8, <1>9 DEF PumpedFrom, QueuedIn
<1> QED
  BY <1>15, <1>16, <1>17 DEF M
-----------------------------------------------------------------------------
LimitOK == proxyMax \in PROXY_MAX_LO .. PROXY_MAX_HI /\ okStreak \in 0 .. HEAL_STREAK - 1
SetsOK ==
  /\ token \in [ProxyRequests -> Tokens \cup {NoToken}]
  /\ low \subseteq ProxyRequests /\ gpu \subseteq ProxyRequests
  /\ killed \subseteq ProxyRequests /\ stopAsked \subseteq ProxyRequests
  /\ cancelled \subseteq Tokens
  /\ childOf \in [Tokens -> ProxyRequests \cup {NoRequest}]
ListsReady == PumpReady(stage, qHigh, qLow, proxyActive)
NoneIdles == Len(TakeOrder(qHigh, qLow)) > 0 => proxyActive >= proxyMax

\* A mark on a request under way was set for it, and so was its answer.
MarksInv ==
  \A r \in ProxyRequests :
    /\ stage[r] = "cancelled" => r \in stopAsked
    /\ r \in UnderWay /\ Marked(r) => r \in stopAsked
ProxyInv == LimitOK /\ SetsOK /\ ListsReady /\ NoneIdles /\ MarksInv

LEMMA LimitStep ==
  ASSUME ProxyAssumption, LimitOK, [ProxyNext]_proxyVars PROVE LimitOK'
<1> USE DEF LimitOK
<1>0. PROXY_MAX_LO \in Nat /\ PROXY_MAX_HI \in Nat /\ PROXY_MAX_LO <= PROXY_MAX_HI
      /\ HEAL_STREAK \in Nat /\ HEAL_STREAK > 0
  BY DEF ProxyAssumption
<1>1. ASSUME NEW r, NEW answer, NEW C, Settle(r, answer, C) PROVE LimitOK'
  <2> DEFINE counts == answer = "ok" /\ r \in gpu /\ proxyMax < PROXY_MAX_HI
             heals == counts /\ okStreak + 1 >= HEAL_STREAK
  <2>1. /\ proxyMax' = IF heals THEN proxyMax + 1 ELSE proxyMax
        /\ okStreak' = IF heals THEN 0 ELSE IF counts THEN okStreak + 1 ELSE okStreak
    BY <1>1 DEF Settle
  <2>2. CASE heals
    <3>1. proxyMax' = proxyMax + 1 /\ okStreak' = 0 /\ proxyMax < PROXY_MAX_HI
      BY <2>1, <2>2
    <3> QED
      BY <1>0, <3>1
  <2>3. CASE ~ heals
    <3>1. /\ proxyMax' = proxyMax
          /\ \/ okStreak' = okStreak
             \/ okStreak' = okStreak + 1 /\ ~ (okStreak + 1 >= HEAL_STREAK)
      BY <2>1, <2>3
    <3> QED
      BY <1>0, <3>1
  <2> QED
    BY <2>2, <2>3
<1>2. ASSUME UNCHANGED okStreak, proxyMax' \in {proxyMax, AtMost(proxyMax, PROXY_MAX_LO)}
      PROVE  LimitOK'
  BY <1>0, <1>2 DEF AtMost
<1>3. ASSUME NEW r, SessionRefused(r) PROVE LimitOK'
  <2>1. proxyMax' = IF proxyMax - 1 > PROXY_MAX_LO THEN proxyMax - 1 ELSE PROXY_MAX_LO
    BY <1>3 DEF SessionRefused
  <2>2. okStreak' = 0
    BY <1>3 DEF SessionRefused
  <2> QED
    BY <1>0, <2>1, <2>2
<1>4. ASSUME NEW r, \E hardware \in BOOLEAN : Probe(r, hardware) PROVE LimitOK'
  BY <1>2, <1>4 DEF Probe
<1>5. ASSUME NEW r, HardwareCancelledAtStart(r) \/ HardwareFails(r) PROVE LimitOK'
  BY <1>2, <1>5 DEF HardwareCancelledAtStart, HardwareFails, SoftwareTakesOver
<1>6. ASSUME NEW r, \/ FoundAtStart(r) \/ CancelledAtStart(r) \/ EncodeSucceeds(r)
                    \/ EncodeCancelled(r) \/ ProxyFails(r)
      PROVE  LimitOK'
  BY <1>1, <1>6, Zenon DEF FoundAtStart, CancelledAtStart, EncodeSucceeds, EncodeCancelled, ProxyFails
<1>7. ASSUME NEW r, \/ \E t \in Tokens \cup {NoToken}, waits \in BOOLEAN : AskProxy(r, t, waits)
                    \/ Hit(r) \/ Enqueue(r) \/ Spawn(r) \/ EncodeRepeats(r) \/ BackoffEnds(r)
      PROVE  LimitOK'
  <2>1. UNCHANGED <<okStreak, proxyMax>>
    BY <1>7, Zenon DEF AskProxy, Hit, Enqueue, Spawn, EncodeRepeats, BackoffEnds
  <2> QED
    BY <1>2, <2>1
<1>8. CASE (\E t \in Tokens : ProxyCancel(t)) \/ ProxyCancelAll \/ UNCHANGED proxyVars
  <2>1. UNCHANGED <<okStreak, proxyMax>>
    BY <1>8, Zenon DEF ProxyCancel, ProxyCancelAll, proxyVars
  <2> QED
    BY <1>2, <2>1
<1> HIDE DEF LimitOK
<1> QED
  BY <1>3, <1>4, <1>5, <1>6, <1>7, <1>8, Zenon DEF ProxyNext

LEMMA CancelledShrinks ==
  ASSUME NEW places, NEW high, NEW lw, NEW active, NEW limit, NEW C,
         Pump(places, high, lw, active, limit, C)
  PROVE  cancelled' \subseteq C
  BY DEF Pump

LEMMA SetsStep ==
  ASSUME ProxyAssumption, SetsOK, [ProxyNext]_proxyVars PROVE SetsOK'
<1>1. ASSUME cancelled' \subseteq cancelled, UNCHANGED <<token, low, stopAsked>>,
             gpu' \subseteq gpu, killed' \subseteq killed,
             \/ UNCHANGED childOf
             \/ \E t \in Tokens, q \in ProxyRequests \cup {NoRequest} :
                  childOf' = [childOf EXCEPT ![t] = q]
      PROVE  SetsOK'
  BY <1>1 DEF SetsOK
<1>2. ASSUME NEW r \in ProxyRequests, Closes(r)
      PROVE  /\ UNCHANGED <<token, low, stopAsked>> /\ killed' \subseteq killed
             /\ \/ UNCHANGED childOf
                \/ \E t \in Tokens, q \in ProxyRequests \cup {NoRequest} :
                     childOf' = [childOf EXCEPT ![t] = q]
  <2>1. token[r] \in Tokens \/ token[r] = NoToken
    BY DEF SetsOK
  <2> QED
    BY <1>2, <2>1 DEF Closes
<1>3. ASSUME NEW r, NEW answer, NEW C, C \subseteq cancelled, Settle(r, answer, C)
      PROVE  cancelled' \subseteq cancelled
  BY <1>3, CancelledShrinks DEF Settle
<1>4. ASSUME NEW r \in ProxyRequests, EncodeSucceeds(r) \/ EncodeCancelled(r) \/ ProxyFails(r)
      PROVE  SetsOK'
  <2>1. Closes(r) /\ UNCHANGED gpu /\ \E answer \in Answers : Settle(r, answer, cancelled)
    BY <1>4 DEF EncodeSucceeds, EncodeCancelled, ProxyFails, Answers
  <2> QED
    BY <1>1, <1>2, <1>3, <2>1
<1>5. ASSUME NEW r \in ProxyRequests, FoundAtStart(r) \/ CancelledAtStart(r)
      PROVE  SetsOK'
  <2>1. UNCHANGED <<token, low, stopAsked, gpu, killed, childOf>>
    BY <1>5 DEF FoundAtStart, CancelledAtStart
  <2>2. \E answer \in Answers, C \in SUBSET cancelled : Settle(r, answer, C)
    BY <1>5 DEF FoundAtStart, CancelledAtStart, Answers
  <2> QED
    BY <1>1, <1>3, <2>1, <2>2
<1>6. ASSUME NEW r \in ProxyRequests, HardwareFails(r) \/ EncodeRepeats(r)
      PROVE  SetsOK'
  <2>1. Closes(r) /\ gpu' \subseteq gpu /\ UNCHANGED cancelled
    BY <1>6 DEF HardwareFails, EncodeRepeats, SoftwareTakesOver
  <2> QED
    BY <1>1, <1>2, <2>1
<1>7. ASSUME NEW r \in ProxyRequests, SessionRefused(r)
      PROVE  SetsOK'
  <2>1. Closes(r) /\ UNCHANGED gpu /\ cancelled' \subseteq cancelled
    BY <1>7, CancelledShrinks DEF SessionRefused
  <2> QED
    BY <1>1, <1>2, <2>1
<1>8. ASSUME NEW r \in ProxyRequests, Enqueue(r) \/ BackoffEnds(r)
      PROVE  SetsOK'
  <2>1. UNCHANGED <<token, low, stopAsked, gpu, killed, childOf>> /\ cancelled' \subseteq cancelled
    BY <1>8, CancelledShrinks DEF Enqueue, BackoffEnds
  <2> QED
    BY <1>1, <2>1
<1>9. ASSUME NEW r \in ProxyRequests, Hit(r) \/ HardwareCancelledAtStart(r)
      PROVE  SetsOK'
  BY <1>1, <1>9 DEF Hit, HardwareCancelledAtStart, SoftwareTakesOver
<1>10. ASSUME NEW r \in ProxyRequests, Spawn(r)
       PROVE  SetsOK'
  <2>1. token[r] \in Tokens \/ token[r] = NoToken
    BY DEF SetsOK
  <2> QED
    BY <1>1, <1>10, <2>1 DEF Spawn
<1>11. ASSUME NEW r \in ProxyRequests, NEW t \in Tokens \cup {NoToken}, NEW waits \in BOOLEAN,
              AskProxy(r, t, waits)
       PROVE  SetsOK'
  BY <1>11 DEF AskProxy, SetsOK
<1>12. ASSUME NEW r \in ProxyRequests, NEW hardware \in BOOLEAN, Probe(r, hardware)
       PROVE  SetsOK'
  BY <1>12 DEF Probe, SetsOK
<1>13. ASSUME NEW t \in Tokens, ProxyCancel(t) PROVE SetsOK'
  BY <1>13 DEF ProxyCancel, SetsOK, UnderWay
<1>14. CASE ProxyCancelAll
  BY <1>14 DEF ProxyCancelAll, SetsOK, UnderWay
<1>15. CASE UNCHANGED proxyVars
  BY <1>15 DEF proxyVars, SetsOK
<1> QED
  BY <1>4, <1>5, <1>6, <1>7, <1>8, <1>9, <1>10, <1>11, <1>12, <1>13, <1>14, <1>15, Zenon DEF ProxyNext
-----------------------------------------------------------------------------
\* A step that neither starts nor ends an encode nor moves who waits.
LEMMA SamePlaces ==
  ASSUME ProxyAssumption, LimitOK, ListsReady, NoneIdles,
         stage' \in [ProxyRequests -> ProxyPlaces],
         QueuedIn(stage') = QueuedIn(stage), RunningIn(stage') = RunningIn(stage),
         UNCHANGED <<qHigh, qLow, proxyActive>>, proxyMax' \in Nat, proxyMax' <= proxyMax
  PROVE  ListsReady' /\ NoneIdles'
<1>1. ListsReady'
  BY DEF ListsReady, PumpReady
<1>2. proxyActive \in Nat /\ proxyMax \in Nat
  BY RunningCounted DEF ListsReady, PumpReady, LimitOK, ProxyAssumption
<1>3. NoneIdles'
  BY <1>2 DEF NoneIdles
<1> QED
  BY <1>1, <1>3

LEMMA StageMoved ==
  ASSUME NEW r \in ProxyRequests, NEW p \in ProxyPlaces, stage \in [ProxyRequests -> ProxyPlaces],
         NEW places, places = [stage EXCEPT ![r] = p]
  PROVE  /\ places \in [ProxyRequests -> ProxyPlaces] /\ places[r] = p
         /\ \A x \in ProxyRequests \ {r} : places[x] = stage[x]
  OBVIOUS

\* A job that ends makes room: proxyPump finds one fewer running.
LEMMA RunningLeaves ==
  ASSUME ProxyAssumption, ListsReady, NEW r \in ProxyRequests, stage[r] \in {"starting", "encoding"},
         NEW p \in Answers \cup {"backoff"}
  PROVE  PumpReady([stage EXCEPT ![r] = p], qHigh, qLow, proxyActive - 1)
<1> DEFINE places == [stage EXCEPT ![r] = p]
<1>0. /\ stage \in [ProxyRequests -> ProxyPlaces] /\ p \in ProxyPlaces
      /\ p \notin {"queued", "starting", "encoding"}
  BY DEF ListsReady, PumpReady, ProxyPlaces, Answers
<1>1. /\ places \in [ProxyRequests -> ProxyPlaces] /\ places[r] = p
      /\ \A x \in ProxyRequests \ {r} : places[x] = stage[x]
  BY <1>0, StageMoved
<1> HIDE DEF places
<1>2. QueuedIn(places) = QueuedIn(stage)
  BY <1>0, <1>1 DEF QueuedIn
<1>3. RunningIn(places) = RunningIn(stage) \ {r} /\ r \in RunningIn(stage)
  BY <1>0, <1>1 DEF RunningIn
<1>4. Cardinality(RunningIn(stage)) \in Nat
      /\ Cardinality(RunningIn(stage) \ {r}) = Cardinality(RunningIn(stage)) - 1
  BY <1>3, RunningCounted, FS_RemoveElement
<1>5. proxyActive - 1 = Cardinality(RunningIn(places))
  BY <1>3, <1>4 DEF ListsReady, PumpReady
<1> QED
  BY <1>1, <1>2, <1>5 DEF ListsReady, PumpReady, places

\* A request that begins to wait is put into one of the lists.
LEMMA OneWaits ==
  ASSUME ProxyAssumption, ListsReady, NEW r \in ProxyRequests, stage[r] \in {"checking", "backoff"},
         NEW high \in Seq(ProxyRequests), NEW lw \in Seq(ProxyRequests),
         \/ high = qHigh /\ (lw = Append(qLow, r) \/ lw = <<r>> \o qLow)
         \/ lw = qLow /\ (high = Append(qHigh, r) \/ high = <<r>> \o qHigh)
  PROVE  PumpReady([stage EXCEPT ![r] = "queued"], high, lw, proxyActive)
<1> DEFINE places == [stage EXCEPT ![r] = "queued"]
           L == TakeOrder(qHigh, qLow)
           M == TakeOrder(high, lw)
           Q == QueuedIn(stage)
<1>0. stage \in [ProxyRequests -> ProxyPlaces] /\ "queued" \in ProxyPlaces
  BY DEF ListsReady, PumpReady, ProxyPlaces
<1>1. /\ places \in [ProxyRequests -> ProxyPlaces] /\ places[r] = "queued"
      /\ \A x \in ProxyRequests \ {r} : places[x] = stage[x]
  BY <1>0, StageMoved
<1> HIDE DEF places
<1>2. QueuedIn(places) = Q \cup {r} /\ r \notin Q /\ RunningIn(places) = RunningIn(stage)
  BY <1>1 DEF QueuedIn, RunningIn
<1>3. Lined(L, Q) /\ qHigh \in Seq(ProxyRequests) /\ qLow \in Seq(ProxyRequests)
  BY DEF ListsReady, PumpReady
<1>4. /\ Len(qHigh) \in Nat /\ Len(qLow) \in Nat
      /\ Len(L) = Len(qHigh) + Len(qLow)
      /\ \A i \in 1 .. Len(L) : L[i] =
           IF i <= Len(qHigh) THEN qHigh[Len(qHigh) - i + 1] ELSE qLow[i - Len(qHigh)]
  <2>1. Len(qHigh) \in Nat /\ Len(qLow) \in Nat
    BY <1>3
  <2>2. /\ Len(L) = Len(qHigh) + Len(qLow)
        /\ \A i \in 1 .. Len(qHigh) + Len(qLow) : L[i] =
             IF i <= Len(qHigh) THEN qHigh[Len(qHigh) - i + 1] ELSE qLow[i - Len(qHigh)]
    BY <1>3, TakeOrderIs
  <2> QED
    BY <2>1, <2>2
<1>5. /\ M \in Seq(ProxyRequests) /\ Len(M) = Len(high) + Len(lw)
      /\ \A i \in 1 .. Len(M) : M[i] =
           IF i <= Len(high) THEN high[Len(high) - i + 1] ELSE lw[i - Len(high)]
  BY TakeOrderIs
<1> HIDE DEF L, M, Q
<1> DEFINE Fits(p) ==
      /\ p \in 1 .. Len(L) + 1 /\ Len(M) = Len(L) + 1
      /\ \A i \in 1 .. Len(M) : M[i] = IF i < p THEN L[i] ELSE IF i = p THEN r ELSE L[i - 1]
<1>6. \E p : Fits(p)
  <2>1. CASE high = qHigh /\ lw = Append(qLow, r)
    <3>1. /\ Len(lw) = Len(qLow) + 1
          /\ \A i \in 1 .. Len(lw) : lw[i] = IF i <= Len(qLow) THEN qLow[i] ELSE r
      BY <1>3, <2>1
    <3>2. Len(L) + 1 \in 1 .. Len(L) + 1 /\ Len(M) = Len(L) + 1
      BY <1>4, <1>5, <2>1, <3>1
    <3>3. ASSUME NEW i \in 1 .. Len(M), i < Len(L) + 1 PROVE M[i] = L[i]
      <4>1. M[i] = IF i <= Len(high) THEN high[Len(high) - i + 1] ELSE lw[i - Len(high)]
        BY <1>5
      <4>2. /\ i \in 1 .. Len(L)
            /\ L[i] = IF i <= Len(qHigh) THEN qHigh[Len(qHigh) - i + 1] ELSE qLow[i - Len(qHigh)]
        BY <1>4, <3>2, <3>3
      <4>3. CASE i <= Len(qHigh)
        <5>1. M[i] = qHigh[Len(qHigh) - i + 1] /\ L[i] = qHigh[Len(qHigh) - i + 1]
          BY <1>3, <1>4, <2>1, <3>1, <3>2, <3>3, <4>1, <4>2, <4>3
        <5> QED
          BY <5>1
      <4>4. CASE ~ (i <= Len(qHigh))
        <5>1. M[i] = lw[i - Len(qHigh)] /\ L[i] = qLow[i - Len(qHigh)]
          BY <1>3, <1>4, <2>1, <3>1, <3>2, <3>3, <4>1, <4>2, <4>4
        <5> QED
          BY <1>4, <3>1, <3>2, <2>1, <3>3, <4>2, <4>4, <5>1
      <4> QED
        BY <4>3, <4>4
    <3>4. M[Len(L) + 1] = r
      <4>1. Len(L) + 1 \in 1 .. Len(M) /\ ~ (Len(L) + 1 <= Len(high))
        BY <1>4, <2>1, <3>1, <3>2
      <4>2. M[Len(L) + 1] = lw[Len(L) + 1 - Len(high)]
        BY <1>5, <4>1
      <4>3. Len(L) + 1 - Len(high) = Len(lw) /\ Len(lw) = Len(qLow) + 1
        BY <1>4, <2>1, <3>1
      <4>4. lw[Len(lw)] = r
        BY <1>4, <3>1
      <4> QED
        BY <4>2, <4>3, <4>4
    <3>5. ASSUME NEW i \in 1 .. Len(M), i > Len(L) + 1 PROVE M[i] = L[i - 1]
      BY <1>4, <1>5, <2>1, <3>1, <3>2, <3>5
    <3>6. Fits(Len(L) + 1)
      BY <1>4, <3>2, <3>3, <3>4, <3>5
    <3> HIDE DEF Fits
    <3> QED
      BY <3>6
  <2>2. CASE high = qHigh /\ lw = <<r>> \o qLow
    <3>1. /\ Len(lw) = Len(qLow) + 1
          /\ \A i \in 1 .. Len(lw) : lw[i] = IF i = 1 THEN r ELSE qLow[i - 1]
      BY <1>3, <2>2
    <3>2. Len(qHigh) + 1 \in 1 .. Len(L) + 1 /\ Len(M) = Len(L) + 1
      BY <1>4, <1>5, <2>2, <3>1
    <3>3. ASSUME NEW i \in 1 .. Len(M), i < Len(qHigh) + 1 PROVE M[i] = L[i]
      <4>1. M[i] = IF i <= Len(high) THEN high[Len(high) - i + 1] ELSE lw[i - Len(high)]
        BY <1>5
      <4>2. /\ i \in 1 .. Len(L)
            /\ L[i] = IF i <= Len(qHigh) THEN qHigh[Len(qHigh) - i + 1] ELSE qLow[i - Len(qHigh)]
        BY <1>4, <3>2, <3>3
      <4>3. M[i] = qHigh[Len(qHigh) - i + 1] /\ L[i] = qHigh[Len(qHigh) - i + 1]
        BY <1>3, <1>4, <2>2, <3>1, <3>2, <3>3, <4>1, <4>2
      <4> QED
        BY <4>3
    <3>4. M[Len(qHigh) + 1] = r
      <4>1. Len(qHigh) + 1 \in 1 .. Len(M) /\ ~ (Len(qHigh) + 1 <= Len(high))
        BY <1>4, <2>2, <3>1, <3>2
      <4>2. M[Len(qHigh) + 1] = lw[Len(qHigh) + 1 - Len(high)]
        BY <1>5, <4>1
      <4>3. Len(qHigh) + 1 - Len(high) = 1
        BY <1>4, <2>2
      <4>4. lw[1] = r
        BY <1>4, <3>1
      <4> QED
        BY <4>2, <4>3, <4>4
    <3>5. ASSUME NEW i \in 1 .. Len(M), i > Len(qHigh) + 1 PROVE M[i] = L[i - 1]
      <4>1. M[i] = IF i <= Len(high) THEN high[Len(high) - i + 1] ELSE lw[i - Len(high)]
        BY <1>5
      <4>2. /\ i - 1 \in 1 .. Len(L)
            /\ L[i - 1] = IF i - 1 <= Len(qHigh) THEN qHigh[Len(qHigh) - (i - 1) + 1]
                          ELSE qLow[i - 1 - Len(qHigh)]
        <5> DEFINE n == i - 1
        <5>1. n \in 1 .. Len(L)
          BY <1>4, <3>2, <3>5
        <5> HIDE DEF n
        <5>2. L[n] = IF n <= Len(qHigh) THEN qHigh[Len(qHigh) - n + 1] ELSE qLow[n - Len(qHigh)]
          BY <1>4, <5>1
        <5> QED
          BY <5>1, <5>2 DEF n
      <4>3. M[i] = lw[i - Len(qHigh)] /\ L[i - 1] = qLow[i - 1 - Len(qHigh)]
        BY <1>3, <1>4, <2>2, <3>1, <3>2, <3>5, <4>1, <4>2
      <4> QED
        BY <1>4, <3>1, <3>2, <2>2, <3>5, <4>2, <4>3
    <3>6. Fits(Len(qHigh) + 1)
      BY <1>4, <3>2, <3>3, <3>4, <3>5
    <3> HIDE DEF Fits
    <3> QED
      BY <3>6
  <2>3. CASE lw = qLow /\ high = Append(qHigh, r)
    <3>1. /\ Len(high) = Len(qHigh) + 1
          /\ \A i \in 1 .. Len(high) : high[i] = IF i <= Len(qHigh) THEN qHigh[i] ELSE r
      BY <1>3, <2>3
    <3>2. 1 \in 1 .. Len(L) + 1 /\ Len(M) = Len(L) + 1
      BY <1>4, <1>5, <2>3, <3>1
    <3>3. ASSUME NEW i \in 1 .. Len(M), i < 1 PROVE M[i] = L[i]
      BY <1>4, <1>5, <2>3, <3>1, <3>2, <3>3
    <3>4. M[1] = r
      BY <1>4, <1>5, <2>3, <3>1, <3>2
    <3>5. ASSUME NEW i \in 1 .. Len(M), i > 1 PROVE M[i] = L[i - 1]
      <4>1. M[i] = IF i <= Len(high) THEN high[Len(high) - i + 1] ELSE lw[i - Len(high)]
        BY <1>5
      <4>2. /\ i - 1 \in 1 .. Len(L)
            /\ L[i - 1] = IF i - 1 <= Len(qHigh) THEN qHigh[Len(qHigh) - (i - 1) + 1]
                          ELSE qLow[i - 1 - Len(qHigh)]
        <5> DEFINE n == i - 1
        <5>1. n \in 1 .. Len(L)
          BY <1>4, <3>2, <3>5
        <5> HIDE DEF n
        <5>2. L[n] = IF n <= Len(qHigh) THEN qHigh[Len(qHigh) - n + 1] ELSE qLow[n - Len(qHigh)]
          BY <1>4, <5>1
        <5> QED
          BY <5>1, <5>2 DEF n
      <4>3. CASE i <= Len(high)
        <5>1. M[i] = high[Len(high) - i + 1] /\ L[i - 1] = qHigh[Len(qHigh) - (i - 1) + 1]
          BY <1>3, <1>4, <2>3, <3>1, <3>2, <3>5, <4>1, <4>2, <4>3
        <5> QED
          BY <1>4, <3>1, <3>2, <2>3, <3>5, <4>2, <4>3, <5>1
      <4>4. CASE ~ (i <= Len(high))
        <5>1. M[i] = qLow[i - Len(high)] /\ L[i - 1] = qLow[i - 1 - Len(qHigh)]
          BY <1>3, <1>4, <2>3, <3>1, <3>2, <3>5, <4>1, <4>2, <4>4
        <5> QED
          BY <1>4, <3>1, <3>2, <2>3, <3>5, <4>2, <4>4, <5>1
      <4> QED
        BY <4>3, <4>4
    <3>6. Fits(1)
      BY <1>4, <3>2, <3>3, <3>4, <3>5
    <3> HIDE DEF Fits
    <3> QED
      BY <3>6
  <2>4. CASE lw = qLow /\ high = <<r>> \o qHigh
    <3>1. /\ Len(high) = Len(qHigh) + 1
          /\ \A i \in 1 .. Len(high) : high[i] = IF i = 1 THEN r ELSE qHigh[i - 1]
      BY <1>3, <2>4
    <3>2. Len(qHigh) + 1 \in 1 .. Len(L) + 1 /\ Len(M) = Len(L) + 1
      BY <1>4, <1>5, <2>4, <3>1
    <3>3. ASSUME NEW i \in 1 .. Len(M), i < Len(qHigh) + 1 PROVE M[i] = L[i]
      <4>1. M[i] = IF i <= Len(high) THEN high[Len(high) - i + 1] ELSE lw[i - Len(high)]
        BY <1>5
      <4>2. /\ i \in 1 .. Len(L)
            /\ L[i] = IF i <= Len(qHigh) THEN qHigh[Len(qHigh) - i + 1] ELSE qLow[i - Len(qHigh)]
        BY <1>4, <3>2, <3>3
      <4>3. M[i] = high[Len(high) - i + 1] /\ L[i] = qHigh[Len(qHigh) - i + 1]
        BY <1>3, <1>4, <2>4, <3>1, <3>2, <3>3, <4>1, <4>2
      <4> QED
        BY <1>4, <3>1, <3>2, <2>4, <3>3, <4>2, <4>3
    <3>4. M[Len(qHigh) + 1] = r
      <4>1. Len(qHigh) + 1 \in 1 .. Len(M) /\ Len(qHigh) + 1 <= Len(high)
        BY <1>4, <3>1, <3>2
      <4>2. M[Len(qHigh) + 1] = high[Len(high) - (Len(qHigh) + 1) + 1]
        BY <1>5, <4>1
      <4>3. Len(high) - (Len(qHigh) + 1) + 1 = 1 /\ high[1] = r
        BY <1>4, <3>1
      <4> QED
        BY <4>2, <4>3
    <3>5. ASSUME NEW i \in 1 .. Len(M), i > Len(qHigh) + 1 PROVE M[i] = L[i - 1]
      <4>1. M[i] = IF i <= Len(high) THEN high[Len(high) - i + 1] ELSE lw[i - Len(high)]
        BY <1>5
      <4>2. /\ i - 1 \in 1 .. Len(L)
            /\ L[i - 1] = IF i - 1 <= Len(qHigh) THEN qHigh[Len(qHigh) - (i - 1) + 1]
                          ELSE qLow[i - 1 - Len(qHigh)]
        <5> DEFINE n == i - 1
        <5>1. n \in 1 .. Len(L)
          BY <1>4, <3>2, <3>5
        <5> HIDE DEF n
        <5>2. L[n] = IF n <= Len(qHigh) THEN qHigh[Len(qHigh) - n + 1] ELSE qLow[n - Len(qHigh)]
          BY <1>4, <5>1
        <5> QED
          BY <5>1, <5>2 DEF n
      <4>3. M[i] = qLow[i - Len(high)] /\ L[i - 1] = qLow[i - 1 - Len(qHigh)]
        BY <1>3, <1>4, <2>4, <3>1, <3>2, <3>5, <4>1, <4>2
      <4> QED
        BY <1>4, <3>1, <3>2, <2>4, <3>5, <4>2, <4>3
    <3>6. Fits(Len(qHigh) + 1)
      BY <1>4, <3>2, <3>3, <3>4, <3>5
    <3> HIDE DEF Fits
    <3> QED
      BY <3>6
  <2> HIDE DEF Fits
  <2> QED
    BY <2>1, <2>2, <2>3, <2>4
<1>7. Lined(M, Q \cup {r})
  BY <1>2, <1>3, <1>5, <1>6, OneMoreLined
<1> QED
  BY <1>1, <1>2, <1>7 DEF ListsReady, PumpReady, places, M
-----------------------------------------------------------------------------
\* A step that sets no mark answers as cancelled only who was under a mark.
LEMMA MarksVanish ==
  ASSUME MarksInv, cancelled' \subseteq cancelled, UNCHANGED <<token, stopAsked>>,
         \A r \in ProxyRequests :
           \/ stage'[r] = stage[r]
           \/ stage'[r] # "none" /\ r \in UnderWay /\ (stage'[r] = "cancelled" => Marked(r))
  PROVE  MarksInv'
<1> SUFFICES ASSUME NEW r \in ProxyRequests
             PROVE  /\ stage'[r] = "cancelled" => r \in stopAsked
                    /\ (r \in UnderWay)' /\ Marked(r)' => r \in stopAsked
  BY DEF MarksInv
<1>1. Marked(r)' => Marked(r)
  BY DEF Marked
<1>2. CASE stage'[r] = stage[r]
  BY <1>1, <1>2 DEF MarksInv, UnderWay
<1>3. CASE stage'[r] # "none" /\ r \in UnderWay /\ (stage'[r] = "cancelled" => Marked(r))
  BY <1>1, <1>3 DEF MarksInv
<1> QED
  BY <1>2, <1>3

LEMMA PumpedMarks ==
  ASSUME MarksInv, UNCHANGED <<token, stopAsked>>, stage \in [ProxyRequests -> ProxyPlaces],
         NEW r \in ProxyRequests, r \in UnderWay,
         NEW p \in ProxyPlaces \ {"none"}, p = "cancelled" => Marked(r),
         NEW C, C \subseteq cancelled, PumpedFrom([stage EXCEPT ![r] = p], C)
  PROVE  MarksInv'
<1> DEFINE places == [stage EXCEPT ![r] = p]
<1>1. places[r] = p /\ \A x \in ProxyRequests \ {r} : places[x] = stage[x]
  BY StageMoved
<1> HIDE DEF places
<1>2. PumpedFrom(places, C)
  BY DEF places
<1>3. cancelled' \subseteq cancelled
  BY <1>2 DEF PumpedFrom
<1>4. ASSUME NEW x \in ProxyRequests
      PROVE  \/ stage'[x] = stage[x]
             \/ stage'[x] # "none" /\ x \in UnderWay /\ (stage'[x] = "cancelled" => Marked(x))
  <2>1. \/ stage'[x] = places[x]
        \/ places[x] = "queued" /\ stage'[x] = "starting"
        \/ places[x] = "queued" /\ stage'[x] = "cancelled" /\ token[x] \in C
    BY <1>2 DEF PumpedFrom
  <2>2. CASE x = r
    BY <1>1, <2>1, <2>2 DEF Marked
  <2>3. CASE x # r
    <3>1. places[x] = stage[x]
      BY <1>1, <2>3
    <3>2. stage[x] = "queued" => x \in UnderWay
      BY DEF UnderWay, Answers
    <3> QED
      BY <2>1, <3>1, <3>2 DEF Marked
  <2> QED
    BY <2>2, <2>3
<1> QED
  BY <1>3, <1>4, MarksVanish

\* What an end of an encode does, whichever answer it has.
LEMMA EndServes ==
  ASSUME ProxyAssumption, ProxyInv, LimitOK', NEW r \in ProxyRequests,
         stage[r] \in {"starting", "encoding"}, NEW p \in Answers \cup {"backoff"},
         p = "cancelled" => Marked(r), NEW C, C \subseteq cancelled,
         UNCHANGED <<token, stopAsked>>,
         Pump([stage EXCEPT ![r] = p], qHigh, qLow, proxyActive - 1, proxyMax', C)
  PROVE  ListsReady' /\ NoneIdles' /\ MarksInv'
<1>1. PumpReady([stage EXCEPT ![r] = p], qHigh, qLow, proxyActive - 1)
  BY RunningLeaves DEF ProxyInv
<1>2. proxyMax' \in Nat
  BY DEF LimitOK, ProxyAssumption
<1>3. /\ PumpReady(stage', qHigh', qLow', proxyActive')
      /\ Len(TakeOrder(qHigh', qLow')) > 0 => proxyActive' >= proxyMax'
      /\ PumpedFrom([stage EXCEPT ![r] = p], C)
  BY <1>1, <1>2, PumpServes
<1>4. p \in ProxyPlaces \ {"none"} /\ r \in UnderWay /\ stage \in [ProxyRequests -> ProxyPlaces]
  BY DEF ProxyPlaces, Answers, UnderWay, ProxyInv, ListsReady, PumpReady
<1>5. MarksInv'
  BY <1>3, <1>4, PumpedMarks DEF ProxyInv
<1> QED
  BY <1>3, <1>5 DEF ListsReady, NoneIdles

LEMMA WaitServes ==
  ASSUME ProxyAssumption, ProxyInv, NEW r \in ProxyRequests, stage[r] \in {"checking", "backoff"},
         NEW high, NEW lw,
         \/ high = qHigh /\ (lw = Append(qLow, r) \/ lw = <<r>> \o qLow)
         \/ lw = qLow /\ (high = Append(qHigh, r) \/ high = <<r>> \o qHigh),
         UNCHANGED <<token, stopAsked, proxyMax>>,
         Pump([stage EXCEPT ![r] = "queued"], high, lw, proxyActive, proxyMax, cancelled)
  PROVE  ListsReady' /\ NoneIdles' /\ MarksInv'
<1>0. qHigh \in Seq(ProxyRequests) /\ qLow \in Seq(ProxyRequests)
      /\ stage \in [ProxyRequests -> ProxyPlaces] /\ ListsReady
  BY DEF ProxyInv, ListsReady, PumpReady
<1>1. high \in Seq(ProxyRequests) /\ lw \in Seq(ProxyRequests)
  <2>1. \A q \in Seq(ProxyRequests) :
          Append(q, r) \in Seq(ProxyRequests) /\ <<r>> \o q \in Seq(ProxyRequests)
    OBVIOUS
  <2> QED
    BY <1>0, <2>1, Zenon
<1>2. PumpReady([stage EXCEPT ![r] = "queued"], high, lw, proxyActive)
  BY <1>0, <1>1, OneWaits
<1>3. proxyMax \in Nat
  BY DEF ProxyInv, LimitOK, ProxyAssumption
<1>4. /\ PumpReady(stage', qHigh', qLow', proxyActive')
      /\ Len(TakeOrder(qHigh', qLow')) > 0 => proxyActive' >= proxyMax
      /\ PumpedFrom([stage EXCEPT ![r] = "queued"], cancelled)
  BY <1>2, <1>3, PumpServes
<1>5. "queued" \in ProxyPlaces \ {"none"} /\ r \in UnderWay
  BY DEF ProxyPlaces, UnderWay, Answers
<1>6. MarksInv'
  BY <1>0, <1>4, <1>5, PumpedMarks DEF ProxyInv
<1> QED
  BY <1>4, <1>6 DEF ListsReady, NoneIdles

\* A step that moves one request between places that neither wait nor encode, or
\* from one way of encoding to the other.
LEMMA MoveServes ==
  ASSUME ProxyAssumption, ProxyInv, LimitOK', NEW r \in ProxyRequests, NEW p \in ProxyPlaces \ {"none"},
         stage' = [stage EXCEPT ![r] = p], r \in UnderWay, p # "cancelled",
         stage[r] # "queued", p # "queued",
         stage[r] \in {"starting", "encoding"} <=> p \in {"starting", "encoding"},
         UNCHANGED <<qHigh, qLow, proxyActive, token, stopAsked>>,
         cancelled' \subseteq cancelled, proxyMax' <= proxyMax
  PROVE  ListsReady' /\ NoneIdles' /\ MarksInv'
<1>0. stage \in [ProxyRequests -> ProxyPlaces]
  BY DEF ProxyInv, ListsReady, PumpReady
<1>1. /\ stage' \in [ProxyRequests -> ProxyPlaces] /\ stage'[r] = p
      /\ \A x \in ProxyRequests \ {r} : stage'[x] = stage[x]
  BY <1>0, StageMoved
<1>2. QueuedIn(stage') = QueuedIn(stage) /\ RunningIn(stage') = RunningIn(stage)
  BY <1>1 DEF QueuedIn, RunningIn
<1>3. proxyMax' \in Nat
  BY DEF LimitOK, ProxyAssumption
<1>4. ListsReady' /\ NoneIdles'
  BY <1>1, <1>2, <1>3, SamePlaces DEF ProxyInv
<1>5. MarksInv'
  <2>1. \A x \in ProxyRequests :
          \/ stage'[x] = stage[x]
          \/ stage'[x] # "none" /\ x \in UnderWay /\ (stage'[x] = "cancelled" => Marked(x))
    BY <1>1
  <2> QED
    BY <2>1, MarksVanish DEF ProxyInv
<1> QED
  BY <1>4, <1>5
-----------------------------------------------------------------------------
LEMMA EndStep ==
  ASSUME ProxyAssumption, ProxyInv, LimitOK', NEW r \in ProxyRequests,
         \/ FoundAtStart(r) \/ CancelledAtStart(r) \/ EncodeSucceeds(r)
         \/ EncodeCancelled(r) \/ ProxyFails(r) \/ SessionRefused(r)
  PROVE  ListsReady' /\ NoneIdles' /\ MarksInv'
<1>1. ASSUME NEW answer \in Answers, NEW C, C \subseteq cancelled, Settle(r, answer, C),
             stage[r] \in {"starting", "encoding"}, answer = "cancelled" => Marked(r),
             UNCHANGED <<token, stopAsked>>
      PROVE  ListsReady' /\ NoneIdles' /\ MarksInv'
  <2>1. Pump([stage EXCEPT ![r] = answer], qHigh, qLow, proxyActive - 1, proxyMax', C)
    BY <1>1 DEF Settle
  <2> QED
    BY <1>1, <2>1, EndServes
<1>2. CASE FoundAtStart(r)
  <2>1. Settle(r, "ok", cancelled) /\ stage[r] = "starting" /\ UNCHANGED <<token, stopAsked>>
    BY <1>2 DEF FoundAtStart
  <2> QED
    BY <1>1, <2>1 DEF Answers
<1>3. CASE CancelledAtStart(r)
  <2>1. /\ Settle(r, "cancelled", cancelled \ {token[r]}) /\ stage[r] = "starting"
        /\ UNCHANGED <<token, stopAsked>> /\ Marked(r)
    BY <1>3 DEF CancelledAtStart
  <2> QED
    BY <1>1, <2>1 DEF Answers
<1>4. CASE EncodeSucceeds(r)
  <2>1. Settle(r, "ok", cancelled) /\ stage[r] = "encoding" /\ UNCHANGED <<token, stopAsked>>
    BY <1>4 DEF EncodeSucceeds, Closes
  <2> QED
    BY <1>1, <2>1 DEF Answers
<1>5. CASE EncodeCancelled(r)
  <2>1. /\ Settle(r, "cancelled", cancelled) /\ stage[r] = "encoding"
        /\ UNCHANGED <<token, stopAsked>> /\ Marked(r)
    BY <1>5 DEF EncodeCancelled, Closes
  <2> QED
    BY <1>1, <2>1 DEF Answers
<1>6. CASE ProxyFails(r)
  <2>1. Settle(r, "error", cancelled) /\ stage[r] = "encoding" /\ UNCHANGED <<token, stopAsked>>
    BY <1>6 DEF ProxyFails, Closes
  <2> QED
    BY <1>1, <2>1 DEF Answers
<1>7. CASE SessionRefused(r)
  <2>1. PICK p \in {"backoff", "error"} :
          Pump([stage EXCEPT ![r] = p], qHigh, qLow, proxyActive - 1, proxyMax', cancelled)
    BY <1>7 DEF SessionRefused
  <2>2. stage[r] = "encoding" /\ UNCHANGED <<token, stopAsked>>
    BY <1>7 DEF SessionRefused, Closes
  <2>3. p \in Answers \cup {"backoff"} /\ p # "cancelled"
    BY DEF Answers
  <2> QED
    BY <2>1, <2>2, <2>3, EndServes
<1> QED
  BY <1>2, <1>3, <1>4, <1>5, <1>6, <1>7

LEMMA MoveStep ==
  ASSUME ProxyAssumption, ProxyInv, LimitOK', NEW r \in ProxyRequests,
         \/ \E hardware \in BOOLEAN : Probe(r, hardware)
         \/ Hit(r) \/ HardwareCancelledAtStart(r) \/ Spawn(r)
         \/ HardwareFails(r) \/ EncodeRepeats(r)
  PROVE  ListsReady' /\ NoneIdles' /\ MarksInv'
<1>0. proxyMax \in Int /\ PROXY_MAX_LO \in Int /\ AtMost(proxyMax, PROXY_MAX_LO) <= proxyMax
      /\ proxyMax <= proxyMax
  BY DEF ProxyInv, LimitOK, ProxyAssumption, AtMost
<1>1. PICK p \in ProxyPlaces \ {"none"} :
        /\ stage' = [stage EXCEPT ![r] = p] /\ p # "cancelled" /\ p # "queued"
        /\ stage[r] \in {"probing", "checking", "starting", "encoding"}
        /\ stage[r] \in {"starting", "encoding"} <=> p \in {"starting", "encoding"}
  <2>1. CASE \E hardware \in BOOLEAN : Probe(r, hardware)
    BY <2>1 DEF Probe, ProxyPlaces
  <2>2. CASE Hit(r)
    <3>1. "ok" \in ProxyPlaces \ {"none"} /\ "ok" \notin {"cancelled", "queued", "starting", "encoding"}
      BY DEF ProxyPlaces, Answers
    <3>2. stage[r] = "checking" /\ stage' = [stage EXCEPT ![r] = "ok"]
      BY <2>2 DEF Hit
    <3> QED
      BY <3>1, <3>2
  <2>3. CASE HardwareCancelledAtStart(r)
    BY <2>3 DEF HardwareCancelledAtStart, SoftwareTakesOver, ProxyPlaces
  <2>4. CASE Spawn(r)
    BY <2>4 DEF Spawn, ProxyPlaces
  <2>5. CASE HardwareFails(r)
    BY <2>5 DEF HardwareFails, Closes, SoftwareTakesOver, ProxyPlaces
  <2>6. CASE EncodeRepeats(r)
    BY <2>6 DEF EncodeRepeats, Closes, ProxyPlaces
  <2> QED
    BY <2>1, <2>2, <2>3, <2>4, <2>5, <2>6
<1>2. r \in UnderWay /\ stage[r] # "queued"
  BY <1>1 DEF UnderWay, Answers
<1>3. /\ UNCHANGED <<qHigh, qLow, proxyActive, token, stopAsked>>
      /\ cancelled' \subseteq cancelled
      /\ proxyMax' \in {proxyMax, AtMost(proxyMax, PROXY_MAX_LO)}
  BY DEF Probe, Hit, HardwareCancelledAtStart, Spawn, HardwareFails, EncodeRepeats, Closes,
     SoftwareTakesOver
<1>4. proxyMax' <= proxyMax
  BY <1>0, <1>3
<1> QED
  BY <1>1, <1>2, <1>3, <1>4, MoveServes

LEMMA WaitStep ==
  ASSUME ProxyAssumption, ProxyInv, NEW r \in ProxyRequests, Enqueue(r) \/ BackoffEnds(r)
  PROVE  ListsReady' /\ NoneIdles' /\ MarksInv'
<1>1. stage[r] \in {"checking", "backoff"} /\ UNCHANGED <<token, stopAsked, proxyMax>>
  BY DEF Enqueue, BackoffEnds
<1>2. \E high, lw :
        /\ \/ high = qHigh /\ (lw = Append(qLow, r) \/ lw = <<r>> \o qLow)
           \/ lw = qLow /\ (high = Append(qHigh, r) \/ high = <<r>> \o qHigh)
        /\ Pump([stage EXCEPT ![r] = "queued"], high, lw, proxyActive, proxyMax, cancelled)
  <2>1. CASE Enqueue(r) /\ r \in low
    BY <2>1 DEF Enqueue
  <2>2. CASE Enqueue(r) /\ r \notin low
    BY <2>2 DEF Enqueue
  <2>3. CASE BackoffEnds(r) /\ r \in low
    BY <2>3 DEF BackoffEnds
  <2>4. CASE BackoffEnds(r) /\ r \notin low
    BY <2>4 DEF BackoffEnds
  <2> QED
    BY <2>1, <2>2, <2>3, <2>4
<1> QED
  BY <1>1, <1>2, WaitServes

LEMMA AskStep ==
  ASSUME ProxyAssumption, ProxyInv, LimitOK', NEW r \in ProxyRequests, NEW t \in Tokens \cup {NoToken},
         NEW waits \in BOOLEAN, AskProxy(r, t, waits)
  PROVE  ListsReady' /\ NoneIdles' /\ MarksInv'
<1>0. stage \in [ProxyRequests -> ProxyPlaces] /\ "probing" \in ProxyPlaces
      /\ token \in [ProxyRequests -> Tokens \cup {NoToken}] /\ cancelled \subseteq Tokens
  BY DEF ProxyInv, ListsReady, PumpReady, ProxyPlaces, SetsOK
<1>1. stage[r] = "none" /\ stage' = [stage EXCEPT ![r] = "probing"]
  BY DEF AskProxy
<1>2. /\ stage' \in [ProxyRequests -> ProxyPlaces] /\ stage'[r] = "probing"
      /\ \A x \in ProxyRequests \ {r} : stage'[x] = stage[x]
  BY <1>0, <1>1, StageMoved
<1>3. QueuedIn(stage') = QueuedIn(stage) /\ RunningIn(stage') = RunningIn(stage)
  BY <1>1, <1>2 DEF QueuedIn, RunningIn
<1>4. UNCHANGED <<qHigh, qLow, proxyActive, proxyMax, stopAsked>> /\ cancelled' = cancelled \ {t}
      /\ token' = [token EXCEPT ![r] = t]
  BY DEF AskProxy
<1>5. proxyMax' \in Nat /\ proxyMax' <= proxyMax
  BY <1>4 DEF ProxyInv, LimitOK, ProxyAssumption
<1>6. ListsReady' /\ NoneIdles'
  BY <1>2, <1>3, <1>4, <1>5, SamePlaces DEF ProxyInv
<1>7. token'[r] = t /\ \A x \in ProxyRequests \ {r} : token'[x] = token[x]
  BY <1>0, <1>4
<1>8. ASSUME NEW x \in ProxyRequests
      PROVE  /\ stage'[x] = "cancelled" => x \in stopAsked'
             /\ (x \in UnderWay)' /\ Marked(x)' => x \in stopAsked'
  <2>1. CASE x = r
    BY <1>2, <1>4, <1>7, <2>1 DEF Marked
  <2>2. CASE x # r
    BY <1>2, <1>4, <1>7, <2>2 DEF Marked, UnderWay, ProxyInv, MarksInv
  <2> QED
    BY <2>1, <2>2
<1>9. MarksInv'
  BY <1>8 DEF MarksInv
<1> QED
  BY <1>6, <1>9

LEMMA CancelStep ==
  ASSUME ProxyAssumption, ProxyInv, LimitOK', NEW t \in Tokens, ProxyCancel(t)
  PROVE  ListsReady' /\ NoneIdles' /\ MarksInv'
<1>1. UNCHANGED <<stage, token, qHigh, qLow, proxyActive, proxyMax>>
      /\ cancelled' \subseteq cancelled \cup {t}
      /\ stopAsked' = stopAsked \cup {r \in UnderWay : token[r] = t}
  BY DEF ProxyCancel
<1>2. stage' \in [ProxyRequests -> ProxyPlaces] /\ proxyMax' \in Nat /\ proxyMax' <= proxyMax
  BY <1>1 DEF ProxyInv, ListsReady, PumpReady, LimitOK, ProxyAssumption
<1>3. ListsReady' /\ NoneIdles'
  BY <1>1, <1>2, SamePlaces DEF ProxyInv
<1>4. MarksInv'
  BY <1>1 DEF ProxyInv, MarksInv, Marked, UnderWay
<1> QED
  BY <1>3, <1>4

LEMMA NobodyLined ==
  /\ <<>> \in Seq(ProxyRequests)
  /\ Lined(TakeOrder(<<>>, <<>>), {}) /\ Len(TakeOrder(<<>>, <<>>)) = 0
<1> DEFINE M == TakeOrder(<<>>, <<>>)
<1>1. <<>> \in Seq(ProxyRequests) /\ Len(<<>>) = 0
  BY EmptySeq
<1>2. M \in Seq(ProxyRequests) /\ Len(M) = Len(<<>>) + Len(<<>>)
  BY <1>1, TakeOrderIs, Zenon
<1> HIDE DEF M
<1>3. M \in Seq(ProxyRequests) /\ Len(M) = 0
  BY <1>1, <1>2
<1>4. Lined(M, {})
  BY <1>3 DEF Lined
<1> QED
  BY <1>1, <1>3, <1>4 DEF M

LEMMA CancelAllStep ==
  ASSUME ProxyAssumption, ProxyInv, LimitOK', ProxyCancelAll
  PROVE  ListsReady' /\ NoneIdles' /\ MarksInv'
<1>0. stage \in [ProxyRequests -> ProxyPlaces] /\ "cancelled" \in ProxyPlaces
  BY DEF ProxyInv, ListsReady, PumpReady, ProxyPlaces, Answers
<1>1. /\ stage' = [r \in ProxyRequests |-> IF stage[r] = "queued" THEN "cancelled" ELSE stage[r]]
      /\ qHigh' = <<>> /\ qLow' = <<>> /\ UNCHANGED <<token, proxyActive>>
      /\ stopAsked' = stopAsked \cup UnderWay
  BY DEF ProxyCancelAll
<1>2. stage' \in [ProxyRequests -> ProxyPlaces]
  BY <1>0, <1>1
<1>3. QueuedIn(stage') = {} /\ RunningIn(stage') = RunningIn(stage)
  BY <1>1 DEF QueuedIn, RunningIn
<1>4. /\ qHigh' \in Seq(ProxyRequests) /\ qLow' \in Seq(ProxyRequests)
      /\ Lined(TakeOrder(qHigh', qLow'), {}) /\ Len(TakeOrder(qHigh', qLow')) = 0
  BY <1>1, NobodyLined, Zenon
<1>5. ListsReady'
  BY <1>1, <1>2, <1>3, <1>4 DEF ProxyInv, ListsReady, PumpReady
<1>6. NoneIdles'
  BY <1>4 DEF NoneIdles
<1>7. ListsReady' /\ NoneIdles'
  BY <1>5, <1>6
<1>8. MarksInv'
  BY <1>1 DEF ProxyInv, MarksInv, UnderWay, Answers
<1> QED
  BY <1>7, <1>8

LEMMA ProxyStep == ASSUME ProxyAssumption, ProxyInv, [ProxyNext]_proxyVars PROVE ProxyInv'
<1>1. LimitOK' /\ SetsOK'
  BY LimitStep, SetsStep DEF ProxyInv
<1>2. CASE UNCHANGED proxyVars
  <2>1. UNCHANGED <<stage, token, qHigh, qLow, proxyMax, proxyActive, cancelled, stopAsked>>
    BY <1>2 DEF proxyVars
  <2>2. ListsReady' /\ NoneIdles'
    BY <2>1 DEF ProxyInv, ListsReady, NoneIdles
  <2>3. MarksInv'
    BY <2>1 DEF ProxyInv, MarksInv, UnderWay, Marked
  <2> QED
    BY <1>1, <2>2, <2>3 DEF ProxyInv
<1>3. CASE ProxyNext
  <2>1. ListsReady' /\ NoneIdles' /\ MarksInv'
    BY <1>1, <1>3, EndStep, MoveStep, WaitStep, AskStep, CancelStep, CancelAllStep, Zenon DEF ProxyNext
  <2> QED
    BY <1>1, <2>1 DEF ProxyInv
<1> QED
  BY <1>2, <1>3

LEMMA ProxyStart == ASSUME ProxyAssumption, ProxyInit PROVE ProxyInv
<1>1. LimitOK /\ SetsOK
  BY DEF ProxyInit, ProxyAssumption, LimitOK, SetsOK, NoRequest
<1>2. stage \in [ProxyRequests -> ProxyPlaces] /\ QueuedIn(stage) = {} /\ RunningIn(stage) = {}
  BY DEF ProxyInit, ProxyPlaces, QueuedIn, RunningIn
<1>3. qHigh = <<>> /\ qLow = <<>>
  BY DEF ProxyInit
<1>4. /\ qHigh \in Seq(ProxyRequests) /\ qLow \in Seq(ProxyRequests)
      /\ Lined(TakeOrder(qHigh, qLow), {}) /\ Len(TakeOrder(qHigh, qLow)) = 0
  BY <1>3, NobodyLined, Zenon
<1>6. proxyActive = Cardinality(RunningIn(stage))
  BY <1>2, FS_EmptySet DEF ProxyInit
<1>7. ListsReady /\ NoneIdles
  BY <1>2, <1>4, <1>6 DEF ListsReady, NoneIdles, PumpReady
<1>8. MarksInv
  BY DEF ProxyInit, MarksInv, UnderWay
<1> QED
  BY <1>1, <1>7, <1>8 DEF ProxyInv

LEMMA ProxyInvHolds == ProxySpec => []ProxyInv
<1>1. ProxyInit => ProxyInv
  BY ProxyAssumption, ProxyStart
<1>2. ProxyInv /\ [ProxyNext]_proxyVars => ProxyInv'
  BY ProxyAssumption, ProxyStep
<1> QED
  BY <1>1, <1>2, PTL DEF ProxySpec

\* Every variable of the queue of encodes stays in its range.
THEOREM ProxyTypes == ProxySpec => []ProxyTypeOK
<1>1. ProxyInv => ProxyTypeOK
  BY DEF ProxyInv, LimitOK, SetsOK, ListsReady, PumpReady, ProxyPlaces, ProxyTypeOK
<1> QED
  BY <1>1, ProxyInvHolds, PTL

\* The line read as the property reads it, the urgent list before the other.
LEMMA ListsHold ==
  ASSUME ProxyAssumption, NEW high \in Seq(ProxyRequests), NEW lw \in Seq(ProxyRequests), NEW Q,
         Lined(TakeOrder(high, lw), Q)
  PROVE  /\ Len(high \o lw) = Cardinality(Q) /\ ToSet(high \o lw) = Q
         /\ Len(high \o lw) = Len(TakeOrder(high, lw))
<1> DEFINE L == TakeOrder(high, lw)
           H == high \o lw
           n == Len(high) + Len(lw)
           f == [i \in 1 .. n |-> L[i]]
<1>0. Len(high) \in Nat /\ Len(lw) \in Nat /\ n \in Nat
  OBVIOUS
<1>1. Len(L) = n /\ \A i \in 1 .. n : L[i] =
        IF i <= Len(high) THEN high[Len(high) - i + 1] ELSE lw[i - Len(high)]
  BY TakeOrderIs
<1>2. /\ H \in Seq(ProxyRequests) /\ Len(H) = n
      /\ \A i \in 1 .. n : H[i] = IF i <= Len(high) THEN high[i] ELSE lw[i - Len(high)]
  BY ConcatProperties
<1>3. Lined(L, Q)
  OBVIOUS
<1> HIDE DEF L, H
<1>4. f \in Bijection(1 .. n, Q)
  BY <1>0, <1>1, <1>3 DEF Lined, Bijection, Injection, Surjection, IsInjective
<1>5. Cardinality(Q) = n
  BY <1>0, <1>4, FS_CountingElements DEF ExistsBijection
<1>6. DOMAIN H = 1 .. n
  BY <1>0, <1>2
<1> DEFINE Mirror(i) == IF i <= Len(high) THEN Len(high) - i + 1 ELSE i
<1>7. ASSUME NEW i \in 1 .. n PROVE Mirror(i) \in 1 .. n /\ H[Mirror(i)] = L[i] /\ L[Mirror(i)] = H[i]
  <2>1. CASE i <= Len(high)
    <3>1. Mirror(i) = Len(high) - i + 1 /\ Mirror(i) \in 1 .. n /\ Mirror(i) <= Len(high)
          /\ Len(high) - Mirror(i) + 1 = i
      BY <1>0, <2>1
    <3> QED
      BY <1>1, <1>2, <2>1, <3>1
  <2>2. CASE ~ (i <= Len(high))
    BY <1>1, <1>2, <2>2
  <2> QED
    BY <2>1, <2>2
<1> HIDE DEF Mirror
<1>8. {H[i] : i \in 1 .. n} = {L[i] : i \in 1 .. n}
  BY <1>7
<1>9. ToSet(H) = Q
  BY <1>1, <1>3, <1>6, <1>8 DEF ToSet, Lined
<1> QED
  BY <1>1, <1>2, <1>5, <1>9 DEF H, L

\* The counter is the number of encodes, every waiting request is in one of the
\* lists once and none waits beside a free slot, and only who was cancelled is
\* answered so, for any requests, tokens, limits and numbers of tries.
THEOREM RequestsStayServed == ProxySpec => []RequestsAreServed
<1>1. ASSUME ProxyInv PROVE RequestsAreServed
  <2>0. /\ qHigh \in Seq(ProxyRequests) /\ qLow \in Seq(ProxyRequests)
        /\ Lined(TakeOrder(qHigh, qLow), QueuedIn(stage))
        /\ proxyActive = Cardinality(RunningIn(stage))
    BY <1>1 DEF ProxyInv, ListsReady, PumpReady
  <2>1. /\ Len(qHigh \o qLow) = Cardinality(QueuedIn(stage)) /\ ToSet(qHigh \o qLow) = QueuedIn(stage)
        /\ Len(qHigh \o qLow) = Len(TakeOrder(qHigh, qLow))
    BY <2>0, ListsHold, ProxyAssumption
  <2>2. RequestsAreCounted
    BY <2>0, <2>1 DEF RequestsAreCounted, Running, RunningIn, QueuedIn
  <2>3. qHigh \o qLow # <<>> => Len(qHigh \o qLow) > 0
    <3>1. qHigh \o qLow \in Seq(ProxyRequests)
      BY <2>0, ConcatProperties
    <3> QED
      BY <3>1, EmptySeq
  <2>4. NoProxySlotIdles
    BY <1>1, <2>1, <2>3 DEF ProxyInv, NoneIdles, NoProxySlotIdles
  <2>5. OnlyTheCancelledStop
    BY <1>1 DEF ProxyInv, MarksInv, OnlyTheCancelledStop
  <2> QED
    BY <2>2, <2>4, <2>5 DEF RequestsAreServed
<1> QED
  BY <1>1, ProxyInvHolds, PTL
================================================================================
