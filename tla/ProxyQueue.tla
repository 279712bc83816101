----------------------------- MODULE ProxyQueue -----------------------------
(***************************************************************************)
(* The queue of preview encodes of the core process (core/proxy.js).       *)
(*                                                                         *)
(* A card of the grid asks for the proxy of a shot under a token, and      *)
(* cancels that token when it leaves the screen.  Requests wait in two     *)
(* lists, urgent ones last come first served; as many are encoded at a     *)
(* time as the hardware seems to bear: the limit goes down when it refuses *)
(* a session, and up again after a series of successes.  The renderer      *)
(* numbers its tokens from one again at each load of the page, while the   *)
(* core goes on: a token names several requests over time.                 *)
(***************************************************************************)
EXTENDS Naturals, FiniteSets, SequencesExt

CONSTANTS
  MaxRequests,     \* bound: how many requests are made
  Tokens,          \* the tokens they carry
  NoToken,         \* the token of a request that cannot be cancelled
  PROXY_MAX_HI, PROXY_MAX_LO,  \* the range of the limit (12 and 3)
  HEAL_STREAK,     \* successes in a row that raise it (4)
  BusyTries,       \* how often a refused session is tried again (8)
  EncodeRetries,   \* how often a software encode is tried again (2)
  MarkLimit        \* above it the marks of cancelled tokens are forgotten (4000)

ASSUME ProxyAssumption ==
  /\ PROXY_MAX_LO \in Nat \ {0} /\ PROXY_MAX_HI \in Nat /\ PROXY_MAX_LO <= PROXY_MAX_HI
  /\ HEAL_STREAK \in Nat \ {0} /\ {MaxRequests, BusyTries, EncodeRetries, MarkLimit} \subseteq Nat
  /\ NoToken \notin Tokens
  /\ IsFiniteSet(Tokens)

\* Requests are named in the order in which they are made.
ProxyRequests == 1 .. MaxRequests
NoRequest == 0

VARIABLES
  stage,       \* stage[r]: where request r is, or how it was answered
  token, low, gpu,  \* its token, whether it can wait, whether hardware encodes it
  busyTries, encodeTries,  \* the sessions refused, the encodes repeated
  qHigh, qLow, \* the two lists
  proxyMax, proxyActive, okStreak,
  cancelled,   \* cancelledTokens
  childOf,     \* childOf[t]: proxyChildren, the request whose ffmpeg runs under t
  killed,      \* the requests whose ffmpeg was killed
  stopAsked    \* history: the requests that were cancelled while under way

proxyVars == <<stage, token, low, gpu, busyTries, encodeTries, qHigh, qLow, proxyMax,
               proxyActive, okStreak, cancelled, childOf, killed, stopAsked>>
-----------------------------------------------------------------------------
Answers == {"ok", "cancelled", "error"}
Running == {r \in ProxyRequests : stage[r] \in {"starting", "encoding"}}
UnderWay == {r \in ProxyRequests : stage[r] \notin {"none"} \cup Answers}
AtMost(a, b) == IF a < b THEN a ELSE b
Marked(r) == token[r] \in cancelled

\* takeJob: the order in which the waiting requests are looked at.
TakeOrder(high, lw) == Reverse(high) \o lw

\* takeJob drops the i-th of line L: its token is marked, and the mark still there.
Dropped(L, C, i) ==
  /\ token[L[i]] \in C
  /\ \A j \in 1 .. i - 1 : token[L[j]] # token[L[i]]
DroppedOf(L, C, k) == {L[i] : i \in {j \in 1 .. k : Dropped(L, C, j)}}
StartedOf(L, C, k) == {L[i] : i \in {j \in 1 .. k : ~ Dropped(L, C, j)}}

\* How far the loop of proxyPump gets when it may start room requests.
Reach(L, C, room) ==
  CHOOSE k \in 0 .. Len(L) :
    /\ Cardinality(StartedOf(L, C, k)) = room \/ k = Len(L)
    /\ \A j \in 0 .. k - 1 : Cardinality(StartedOf(L, C, j)) < room

\* proxyPump, from the given places, lists, count, limit and marks.
Pump(places, high, lw, active, max, C) ==
  LET L == TakeOrder(high, lw)
      k == Reach(L, C, IF active < max THEN max - active ELSE 0)
      fromHigh == AtMost(k, Len(high))
  IN /\ qHigh' = SubSeq(high, 1, Len(high) - fromHigh)
     /\ qLow' = SubSeq(lw, k - fromHigh + 1, Len(lw))
     /\ proxyActive' = active + Cardinality(StartedOf(L, C, k))
     /\ cancelled' = C \ {token[r] : r \in DroppedOf(L, C, k)}
     /\ stage' = [r \in ProxyRequests |->
                 CASE r \in StartedOf(L, C, k) -> "starting"
                   [] r \in DroppedOf(L, C, k) -> "cancelled"
                   [] OTHER -> places[r]]
-----------------------------------------------------------------------------
ProxyInit ==
  /\ stage = [r \in ProxyRequests |-> "none"]
  /\ token = [r \in ProxyRequests |-> NoToken]
  /\ low = {} /\ gpu = {} /\ killed = {} /\ stopAsked = {}
  /\ busyTries = [r \in ProxyRequests |-> 0]
  /\ encodeTries = [r \in ProxyRequests |-> 0]
  /\ qHigh = <<>> /\ qLow = <<>>
  /\ proxyMax = PROXY_MAX_HI /\ proxyActive = 0 /\ okStreak = 0
  /\ cancelled = {}
  /\ childOf = [t \in Tokens |-> NoRequest]

\* Mutation: a mark that is older than the request is kept.
AskKeepsMark(r, t, waits) ==
  /\ stage[r] = "none" /\ \A q \in 1 .. r - 1 : stage[q] # "none"
  /\ stage' = [stage EXCEPT ![r] = "probing"]
  /\ token' = [token EXCEPT ![r] = t]
  /\ low' = IF waits THEN low \cup {r} ELSE low
  /\ UNCHANGED <<gpu, busyTries, encodeTries, qHigh, qLow, proxyMax, proxyActive,
                 okStreak, cancelled, childOf, killed, stopAsked>>

\* proxySegment: the life of the token begins, marks of before are void.
AskProxy(r, t, waits) ==
  /\ stage[r] = "none" /\ \A q \in 1 .. r - 1 : stage[q] # "none"
  /\ stage' = [stage EXCEPT ![r] = "probing"]
  /\ token' = [token EXCEPT ![r] = t]
  /\ low' = IF waits THEN low \cup {r} ELSE low
  /\ cancelled' = cancelled \ {t}
  /\ UNCHANGED <<gpu, busyTries, encodeTries, qHigh, qLow, proxyMax, proxyActive,
                 okStreak, childOf, killed, stopAsked>>

\* The capabilities are known: without hardware the limit drops at once.
Probe(r, hardware) ==
  /\ stage[r] = "probing"
  /\ stage' = [stage EXCEPT ![r] = "checking"]
  /\ gpu' = IF hardware THEN gpu \cup {r} ELSE gpu
  /\ proxyMax' = IF hardware THEN proxyMax ELSE AtMost(proxyMax, PROXY_MAX_LO)
  /\ UNCHANGED <<token, low, busyTries, encodeTries, qHigh, qLow, proxyActive,
                 okStreak, cancelled, childOf, killed, stopAsked>>

\* The proxy was there: no encode is queued.
Hit(r) ==
  /\ stage[r] = "checking"
  /\ stage' = [stage EXCEPT ![r] = "ok"]
  /\ UNCHANGED <<token, low, gpu, busyTries, encodeTries, qHigh, qLow, proxyMax,
                 proxyActive, okStreak, cancelled, childOf, killed, stopAsked>>

\* proxyGate.
Enqueue(r) ==
  /\ stage[r] = "checking"
  /\ Pump([stage EXCEPT ![r] = "queued"],
          IF r \in low THEN qHigh ELSE Append(qHigh, r),
          IF r \in low THEN Append(qLow, r) ELSE qLow,
          proxyActive, proxyMax, cancelled)
  /\ UNCHANGED <<token, low, gpu, busyTries, encodeTries, proxyMax, okStreak, childOf,
                 killed, stopAsked>>

\* What proxyPump does with an answer that is not a refused session.
Settle(r, answer, C) ==
  LET counts == answer = "ok" /\ r \in gpu /\ proxyMax < PROXY_MAX_HI
      heals == counts /\ okStreak + 1 >= HEAL_STREAK
  IN /\ proxyMax' = IF heals THEN proxyMax + 1 ELSE proxyMax
     /\ okStreak' = IF heals THEN 0 ELSE IF counts THEN okStreak + 1 ELSE okStreak
     /\ Pump([stage EXCEPT ![r] = answer], qHigh, qLow, proxyActive - 1, proxyMax', C)

\* The job runs: somebody else encoded the same proxy meanwhile.
FoundAtStart(r) ==
  /\ stage[r] = "starting" /\ encodeTries[r] = 0
  /\ Settle(r, "ok", cancelled)
  /\ UNCHANGED <<token, low, gpu, busyTries, encodeTries, childOf, killed, stopAsked>>

\* ffSpawnCancellable finds the mark and consumes it.
CancelledAtStart(r) ==
  /\ stage[r] = "starting" /\ Marked(r) /\ r \notin gpu
  /\ Settle(r, "cancelled", cancelled \ {token[r]})
  /\ UNCHANGED <<token, low, gpu, busyTries, encodeTries, childOf, killed, stopAsked>>

\* Under the hardware encoder any error but a refused session, this one included,
\* hands the request to the software encoder: the mark is gone by then.
SoftwareTakesOver(r) ==
  /\ gpu' = gpu \ {r}
  /\ proxyMax' = AtMost(proxyMax, PROXY_MAX_LO)
  /\ stage' = [stage EXCEPT ![r] = "starting"]
  /\ UNCHANGED <<busyTries, encodeTries, qHigh, qLow, proxyActive, okStreak>>

HardwareCancelledAtStart(r) ==
  /\ stage[r] = "starting" /\ Marked(r) /\ r \in gpu
  /\ SoftwareTakesOver(r)
  /\ cancelled' = cancelled \ {token[r]}
  /\ UNCHANGED <<token, low, childOf, killed, stopAsked>>

Spawn(r) ==
  /\ stage[r] = "starting" /\ ~ Marked(r)
  /\ stage' = [stage EXCEPT ![r] = "encoding"]
  /\ childOf' = IF token[r] = NoToken THEN childOf ELSE [childOf EXCEPT ![token[r]] = r]
  /\ UNCHANGED <<token, low, gpu, busyTries, encodeTries, qHigh, qLow, proxyMax,
                 proxyActive, okStreak, cancelled, killed, stopAsked>>

\* ffmpeg has ended: whoever runs under the token leaves proxyChildren.
Closes(r) ==
  /\ stage[r] = "encoding"
  /\ childOf' = IF token[r] = NoToken THEN childOf ELSE [childOf EXCEPT ![token[r]] = NoRequest]
  /\ killed' = killed \ {r}
  /\ UNCHANGED <<token, low, stopAsked>>

EncodeSucceeds(r) ==
  /\ Closes(r)
  /\ Settle(r, "ok", cancelled)
  /\ UNCHANGED <<gpu, busyTries, encodeTries>>

\* It was killed and its mark is still there: nobody wants it any more.
EncodeCancelled(r) ==
  /\ r \in killed /\ Marked(r) /\ r \notin gpu
  /\ Closes(r)
  /\ Settle(r, "cancelled", cancelled)
  /\ UNCHANGED <<gpu, busyTries, encodeTries>>

\* The hardware encode failed, or was killed.
HardwareFails(r) ==
  /\ r \in gpu
  /\ Closes(r)
  /\ SoftwareTakesOver(r)
  /\ UNCHANGED cancelled

\* The software encode failed, or was killed and nothing says why.
EncodeRepeats(r) ==
  /\ ~ (r \in killed /\ Marked(r))
  /\ r \notin gpu /\ encodeTries[r] < EncodeRetries
  /\ Closes(r)
  /\ stage' = [stage EXCEPT ![r] = "starting"]
  /\ encodeTries' = [encodeTries EXCEPT ![r] = @ + 1]
  /\ UNCHANGED <<gpu, proxyMax, busyTries, qHigh, qLow, proxyActive, okStreak, cancelled>>

ProxyFails(r) ==
  /\ ~ (r \in killed /\ Marked(r))
  /\ r \notin gpu /\ encodeTries[r] = EncodeRetries
  /\ Closes(r)
  /\ Settle(r, "error", cancelled)
  /\ UNCHANGED <<gpu, busyTries, encodeTries>>

\* The driver refuses a session: one fewer at a time, and again a little later.
SessionRefused(r) ==
  /\ r \in gpu /\ r \notin killed
  /\ Closes(r)
  /\ LET max == IF proxyMax - 1 > PROXY_MAX_LO THEN proxyMax - 1 ELSE PROXY_MAX_LO
         next == IF busyTries[r] < BusyTries THEN "backoff" ELSE "error"
     IN /\ proxyMax' = max
        /\ Pump([stage EXCEPT ![r] = next], qHigh, qLow, proxyActive - 1, max, cancelled)
  /\ okStreak' = 0
  /\ busyTries' = [busyTries EXCEPT ![r] = @ + 1]
  /\ UNCHANGED <<gpu, encodeTries>>

\* The delay of a refused request is over: it goes to the front of its list,
\* which is the bottom of the urgent one.
BackoffEnds(r) ==
  /\ stage[r] = "backoff"
  /\ Pump([stage EXCEPT ![r] = "queued"],
          IF r \in low THEN qHigh ELSE <<r>> \o qHigh,
          IF r \in low THEN <<r>> \o qLow ELSE qLow,
          proxyActive, proxyMax, cancelled)
  /\ UNCHANGED <<token, low, gpu, busyTries, encodeTries, proxyMax, okStreak, childOf,
                 killed, stopAsked>>

\* proxyCancel: marks of before are all forgotten when they are too many.
ProxyCancel(t) ==
  /\ cancelled' = IF Cardinality(cancelled \cup {t}) > MarkLimit THEN {} ELSE cancelled \cup {t}
  /\ killed' = killed \cup ({childOf[t]} \ {NoRequest})
  /\ stopAsked' = stopAsked \cup {r \in UnderWay : token[r] = t}
  /\ UNCHANGED <<stage, token, low, gpu, busyTries, encodeTries, qHigh, qLow, proxyMax,
                 proxyActive, okStreak, childOf>>

\* proxyCancelAll: both lists are answered and every child with a token is killed.
ProxyCancelAll ==
  /\ stage' = [r \in ProxyRequests |-> IF stage[r] = "queued" THEN "cancelled" ELSE stage[r]]
  /\ qHigh' = <<>> /\ qLow' = <<>>
  /\ LET busy == {t \in Tokens : childOf[t] # NoRequest} IN
       /\ cancelled' = cancelled \cup busy
       /\ killed' = killed \cup {childOf[t] : t \in busy}
  /\ stopAsked' = stopAsked \cup UnderWay
  /\ UNCHANGED <<token, low, gpu, busyTries, encodeTries, proxyMax, proxyActive,
                 okStreak, childOf>>

ProxyNext ==
  \/ \E r \in ProxyRequests :
       \/ \E t \in Tokens \cup {NoToken}, waits \in BOOLEAN : AskProxy(r, t, waits)
       \/ \E hardware \in BOOLEAN : Probe(r, hardware)
       \/ Hit(r) \/ Enqueue(r)
       \/ FoundAtStart(r) \/ CancelledAtStart(r) \/ HardwareCancelledAtStart(r)
       \/ Spawn(r) \/ EncodeSucceeds(r) \/ EncodeCancelled(r) \/ HardwareFails(r)
       \/ EncodeRepeats(r) \/ ProxyFails(r) \/ SessionRefused(r)
       \/ BackoffEnds(r)
  \/ \E t \in Tokens : ProxyCancel(t)
  \/ ProxyCancelAll

ProxySpec == ProxyInit /\ [][ProxyNext]_proxyVars
-----------------------------------------------------------------------------
ProxyTypeOK ==
  /\ stage \in [ProxyRequests -> {"none", "probing", "checking", "queued", "starting",
                               "encoding", "backoff"} \cup Answers]
  /\ token \in [ProxyRequests -> Tokens \cup {NoToken}]
  /\ {low, gpu, killed, stopAsked} \subseteq SUBSET ProxyRequests
  /\ proxyMax \in PROXY_MAX_LO .. PROXY_MAX_HI
  /\ okStreak \in 0 .. HEAL_STREAK - 1
  /\ cancelled \subseteq Tokens
  /\ childOf \in [Tokens -> ProxyRequests \cup {NoRequest}]

\* The counter says how many jobs run, and every waiting request is in one list,
\* once: none is forgotten, none is encoded twice.
RequestsAreCounted ==
  /\ proxyActive = Cardinality(Running)
  /\ Len(qHigh \o qLow) = Cardinality({r \in ProxyRequests : stage[r] = "queued"})
  /\ ToSet(qHigh \o qLow) = {r \in ProxyRequests : stage[r] = "queued"}

\* No request waits while a slot is free, whichever way the limit and the slots
\* changed (proxyPump is called wherever a slot or a request appears).
NoProxySlotIdles == qHigh \o qLow # <<>> => proxyActive >= proxyMax

\* A request is answered as cancelled only if it was cancelled after it was made:
\* a mark left by an earlier request under the same token does not stop it.
OnlyTheCancelledStop == \A r \in ProxyRequests : stage[r] = "cancelled" => r \in stopAsked

\* What the queue owes its callers.
RequestsAreServed == RequestsAreCounted /\ NoProxySlotIdles /\ OnlyTheCancelledStop

\* After the global stop nothing that was asked for before is encoded, as the
\* comment of proxyCancelAll says ("STOP global, à toute épreuve").
\* No run checks it: a request in its backoff, one that has yet to start, and one
\* whose mark the hardware encoder consumed are encoded all the same.
StopAllStops ==
  [][\A r \in ProxyRequests : Spawn(r) => r \notin stopAsked]_proxyVars

\* The limit goes down only when the hardware refuses a session, fails or is not
\* there, never because somebody stopped looking (the comment of the queue says
\* "SEULEMENT quand le GPU refuse vraiment une session").
\* No run checks it: cancelling an encode of the hardware puts it at the floor.
StopsKeepTheLimit ==
  [][proxyMax' < proxyMax =>
       \E r \in ProxyRequests :
         Probe(r, FALSE) \/ SessionRefused(r) \/ (HardwareFails(r) /\ r \notin killed)]_proxyVars
=============================================================================
