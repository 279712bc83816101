--------------------------- MODULE HostAccess_proofs ---------------------------
(*******************************************************************************)
(* The operations of the application over the bridge to Resolve, and what the  *)
(* application keeps of a host's project.                                      *)
(*                                                                             *)
(* AnswersMatch needs that no number is given twice: what is in any pipe under *)
(* a call's number is its own request or the answer to it (IdsInv).            *)
(*                                                                             *)
(* HandlesStayValid needs the order of the pipe: requests are served in the    *)
(* order of their numbers (HelpersInOrder), and while a call that takes an object is  *)
(* under way no request to empty the registry has a later number; once the     *)
(* object is made, none is left behind it (Safe).  Nobody asks for an empty    *)
(* registry meanwhile, because the registry was emptied for this bracket       *)
(* before the object was asked for (BracketInv).                               *)
(*                                                                             *)
(* A step is one of three: a call, an answer of a helper, or one that only     *)
(* loses what is in the pipes and settles calls (StepKinds).                   *)
(*                                                                             *)
(* The snapshot of a host's project (ProjectSnapshot) is complete when a       *)
(* capture returns it because a sweep that nothing disturbed has read every    *)
(* part of what is open now (SweptInv).                                        *)
(*                                                                             *)
(* A send is built once in a life of the core because what a flush has still   *)
(* to apply waits, and what was built does not wait any more or is the one     *)
(* being marked (BuildsInv).  A host that was closed stays on offer because    *)
(* whoever says that it runs has seen it run since (OfferInv).                 *)
(*******************************************************************************)
EXTENDS ResolveHandles, ProjectSnapshot, HostPower, FiniteSetTheorems, TLAPS

Method == {"connect", "reset", "invoke", "use"}
Helper ==
  [state : {"running", "dead", "gone"}, inbox : Seq(Request), outbox : Seq(Line),
   connected : BOOLEAN, registry : SUBSET Nat, next : Nat \ {0}]
Call ==
  [state : {"none", "rejected"}]
  \cup [state : {"waiting"}, id : 1 .. MaxCalls, method : Method, target : Nat]
  \cup [state : {"answered"}, method : Method, to : Method, result : Result]

Numbered(h) == helpers[h].registry \subseteq 1 .. helpers[h].next - 1

HelpersOK == helpers \in Seq(Helper) /\ child \in 0 .. Len(helpers)
CallsOK == calls \in 0 .. MaxCalls /\ call \in [Op -> Call]
PlacesOK ==
  /\ at \in [Op -> {"idle", "begun", "ready", "failed", "connecting", "clearing", "resetting",
       "calling"}]
  /\ held \in [Op -> Object]
BridgeOK == HelpersOK /\ CallsOK /\ PlacesOK

Items(s) == {s[k] : k \in 1 .. Len(s)}
In(h) == Items(helpers[h].inbox)
Out(h) == Items(helpers[h].outbox)

\* No call is numbered like another: what is under a call's number in any pipe
\* is its own request or the answer to it.
Numbers ==
  /\ \A o \in Op : Waiting(o) => call[o].id <= calls
  /\ \A o, p \in Op : Waiting(o) /\ Waiting(p) /\ call[o].id = call[p].id => o = p
  /\ \A h \in 1 .. Len(helpers) : \A m \in In(h) \cup Out(h) : m.id <= calls
Matching ==
  \A o \in Op : Waiting(o) => \A h \in 1 .. Len(helpers) : \A m \in In(h) \cup Out(h) :
    m.id = call[o].id => m.method = call[o].method
IdsInv == Numbers /\ Matching /\ AnswersMatch

-----------------------------------------------------------------------------
\* Operations with a bracket do not overlap.
OneInFlight ==
  \A o, p \in Bracketed : at[o] # "idle" /\ at[p] # "idle" => o = p

\* The depth counts, and the registry was emptied for an operation before it
\* takes an object.
BracketInv ==
  /\ opDepth \in {0, 1}
  /\ opDepth = 1 <=> \E o \in Bracketed : at[o] # "idle"
  /\ \A o \in Bracketed :
       /\ at[o] # "clearing"
       /\ at[o] \in {"ready", "calling"} \/ held[o] # NoObject => resetSeq = opSeq

\* Requests are served in the order of their numbers.
HelpersInOrder ==
  \A h \in 1 .. Len(helpers) : \A j, k \in 1 .. Len(helpers[h].inbox) :
    j < k => helpers[h].inbox[j].id < helpers[h].inbox[k].id

NoReset(h) == \A m \in In(h) : m.method # "reset"

\* The object is registered and stays so while its helper lives.
Safe(x) ==
  /\ x[1] \in 1 .. Len(helpers)
  /\ helpers[x[1]].state = "running" => x[2] \in helpers[x[1]].registry /\ NoReset(x[1])

Invoking(o) == Waiting(o) /\ call[o].method = "invoke"
Gives(result, x) == "object" \in DOMAIN result /\ x = result.object

SafeFor(o) ==
  /\ held[o] # NoObject => Safe(held[o])
  /\ call[o].state = "answered" /\ call[o].method = "invoke" =>
       \A x \in Object : Gives(call[o].result, x) => Safe(x)
  /\ Invoking(o) => \A h \in 1 .. Len(helpers) :
       /\ \A m \in In(h) : m.method = "reset" => m.id < call[o].id
       /\ \A m \in Out(h) : m.id = call[o].id => \A x \in Object : Gives(m.result, x) => Safe(x)
SafeInv == \A o \in Bracketed : SafeFor(o)

-----------------------------------------------------------------------------
\* The members of a pipe after an item is written or read.
LEMMA ItemsOf ==
  ASSUME NEW S, NEW s \in Seq(S)
  PROVE /\ Items(s) \subseteq S /\ Items(<<>>) = {}
        /\ \A e \in S : Items(Append(s, e)) = Items(s) \cup {e}
        /\ s # <<>> => Head(s) \in Items(s) /\ Items(Tail(s)) \subseteq Items(s)
<1>1. Items(s) \subseteq S /\ Items(<<>>) = {}
  BY DEF Items
<1>2. ASSUME NEW e \in S PROVE Items(Append(s, e)) = Items(s) \cup {e}
  <2>1. /\ Len(Append(s, e)) = Len(s) + 1 /\ Len(s) \in Nat /\ Append(s, e)[Len(s) + 1] = e
        /\ \A k \in 1 .. Len(s) : Append(s, e)[k] = s[k]
    OBVIOUS
  <2>2. 1 .. Len(s) + 1 = (1 .. Len(s)) \cup {Len(s) + 1}
    BY <2>1
  <2> QED
    BY <2>1, <2>2 DEF Items
<1>3. ASSUME s # <<>> PROVE Head(s) \in Items(s) /\ Items(Tail(s)) \subseteq Items(s)
  BY <1>3 DEF Items
<1> QED
  BY <1>1, <1>2, <1>3

\* What a helper process is made of.
LEMMA HelperFields ==
  ASSUME NEW x \in Helper
  PROVE /\ x.state \in {"running", "dead", "gone"} /\ x.inbox \in Seq(Request)
             /\ x.outbox \in Seq(Line)
        /\ x.connected \in BOOLEAN /\ x.registry \in SUBSET Nat /\ x.next \in Nat \ {0}
  BY DEF Helper

WithInbox(x, s, y) == y = [x EXCEPT !.inbox = s]
WithOutbox(x, s, y) == y = [x EXCEPT !.outbox = s]
WithRegistry(x, s, n, y) == y = [x EXCEPT !.registry = s, !.next = n]
AsCorpse(x, s, y) == y = [x EXCEPT !.state = "dead", !.outbox = s]

\* A helper whose pipe of requests changes; three more of the kind follow.
LEMMA Inboxed ==
  ASSUME NEW x \in Helper, NEW s \in Seq(Request), NEW y, WithInbox(x, s, y)
  PROVE /\ y \in Helper /\ y.inbox = s /\ y.outbox = x.outbox /\ y.state = x.state
        /\ y.connected = x.connected /\ y.registry = x.registry /\ y.next = x.next
  BY DEF Helper, WithInbox

LEMMA Outboxed ==
  ASSUME NEW x \in Helper, NEW s \in Seq(Line), NEW y, WithOutbox(x, s, y)
  PROVE /\ y \in Helper /\ y.inbox = x.inbox /\ y.outbox = s /\ y.state = x.state
        /\ y.connected = x.connected /\ y.registry = x.registry /\ y.next = x.next
  BY DEF Helper, WithOutbox

LEMMA RegisteredObjects ==
  ASSUME NEW x \in Helper, NEW s \in SUBSET Nat, NEW n \in Nat \ {0}, NEW y, WithRegistry(x, s,
           n, y)
  PROVE /\ y \in Helper /\ y.inbox = x.inbox /\ y.outbox = x.outbox /\ y.state = x.state
        /\ y.registry = s /\ y.next = n
  BY DEF Helper, WithRegistry

LEMMA Died ==
  ASSUME NEW x \in Helper, NEW s \in Seq(Line), NEW y, AsCorpse(x, s, y)
  PROVE y \in Helper /\ y.inbox = x.inbox /\ y.outbox = s /\ y.state = "dead"
  BY DEF Helper, AsCorpse

\* A set of one result holds that one.
LEMMA OneResult ==
  ASSUME NEW v, NEW r
  PROVE /\ r \in [object : {v}] => r = [object |-> v]
        /\ r \in [error : {v}] => r = [error |-> v]
  OBVIOUS

\* A helper that was just spawned.
LEMMA NewHelperFields ==
  /\ NewHelper \in Helper /\ NewHelper.state = "running" /\ NewHelper.inbox = <<>>
  /\ NewHelper.outbox = <<>> /\ NewHelper.registry = {} /\ NewHelper.next = 1
  /\ NewHelper.connected = FALSE
  BY DEF NewHelper, Helper

\* A line that is not torn has a number, a method and a result.
LEMMA LineFields ==
  /\ TornLine \in Line /\ TornLine.id = 0
  /\ \A l \in Line : l # TornLine => l.id \in 1 .. MaxCalls /\ l.method \in Method
       /\ l.result \in Result
  /\ \A i \in 1 .. MaxCalls, m \in Method, r \in Result : [id |-> i, method |-> m,
       result |-> r] \in Line
  BY DEF TornLine, Line, Method

\* What a request is made of.
LEMMA RequestFields ==
  /\ \A r \in Request : r.id \in 1 .. MaxCalls /\ r.method \in Method /\ r.target \in Nat
  /\ \A i \in 1 .. MaxCalls, m \in Method, t \in Nat : [id |-> i, method |-> m,
       target |-> t] \in Request
  BY DEF Request, Method

\* What a call is made of, by its state.
LEMMA CallFields ==
  ASSUME NEW c \in Call
  PROVE /\ c.state \in {"none", "rejected", "waiting", "answered"}
        /\ c.state = "waiting" => c.id \in 1 .. MaxCalls /\ c.method \in Method
             /\ c.target \in Nat
        /\ c.state = "answered" => c.method \in Method /\ c.to \in Method /\ c.result \in Result
        /\ c.state = "none" <=> c = NoCall
  BY DEF Call, NoCall

\* Every call the actions make is one.
LEMMA CallMade ==
  /\ NoCall \in Call /\ [state |-> "rejected"] \in Call
  /\ \A i \in 1 .. MaxCalls, m \in Method, t \in Nat :
       [state |-> "waiting", id |-> i, method |-> m, target |-> t] \in Call
  /\ \A m, n \in Method, r \in Result :
       [state |-> "answered", method |-> m, to |-> n, result |-> r] \in Call
  BY DEF Call, NoCall

-----------------------------------------------------------------------------
\* The helper as a call finds it, which may be a new one.
Before(h) == IF h \in 1 .. Len(helpers) THEN helpers[h] ELSE NewHelper
RequestOf(m, t) == [id |-> NextId, method |-> m, target |-> t]

\* What a call changes.
Calls(o, m, t) ==
  /\ calls < MaxCalls /\ calls' = calls + 1
  /\ call' = [call EXCEPT ![o] = [state |-> "waiting", id |-> calls + 1, method |-> m,
       target |-> t]]
  /\ helpers' \in Seq(Helper) /\ child' \in 0 .. Len(helpers') /\ Len(helpers) <= Len(helpers')
  /\ \A h \in 1 .. Len(helpers') :
       /\ Before(h) \in Helper /\ helpers'[h].state = Before(h).state
       /\ helpers'[h].outbox = Before(h).outbox /\ helpers'[h].registry = Before(h).registry
       /\ helpers'[h].next = Before(h).next
       /\ helpers'[h].inbox \in {Before(h).inbox, Append(Before(h).inbox, RequestOf(m, t))}

\* ensure() and rpc() write the request to one helper, which may be a new one.
LEMMA RpcCalls ==
  ASSUME BridgeOK, NEW o \in Op, NEW m \in Method, NEW t \in Nat, Rpc(o, m, t)
  PROVE Calls(o, m, t)
<1> DEFINE running == IF child = 0 THEN Append(helpers, NewHelper) ELSE helpers
           current == IF child = 0 THEN Len(helpers) + 1 ELSE child
           request == RequestOf(m, t)
<1> USE DEF BridgeOK, HelpersOK, CallsOK
<1>0. MaxCalls \in Nat /\ calls \in Nat /\ calls < MaxCalls
  BY BridgeAssumption DEF Rpc
<1>1. request \in Request
  BY <1>0, RequestFields DEF RequestOf, NextId
<1>2. /\ running \in Seq(Helper) /\ current \in 1 .. Len(running) /\ Len(helpers) <= Len(running)
      /\ \A h \in 1 .. Len(running) : running[h] = Before(h)
  BY NewHelperFields DEF Before
<1>3. /\ child' = current
      /\ helpers' = IF running[current].state = "running"
                    THEN [running EXCEPT ![current].inbox = Append(@, request)]
                    ELSE helpers
  BY DEF Rpc, RequestOf
<1>4. running[current].state # "running" => running = helpers
  BY <1>2, NewHelperFields DEF Before
<1> HIDE DEF running, current, request
<1>5. CASE running[current].state = "running"
  <2> DEFINE s == Append(running[current].inbox, request)
             y == [running[current] EXCEPT !.inbox = s]
  <2>1. running[current] \in Helper /\ s \in Seq(Request)
    BY <1>1, <1>2, HelperFields
  <2>2. helpers' = [running EXCEPT ![current] = y]
    BY <1>3, <1>5
  <2>3. /\ y \in Helper /\ y.inbox = s /\ y.outbox = running[current].outbox
             /\ y.state = running[current].state
        /\ y.registry = running[current].registry /\ y.next = running[current].next
    <3>1. WithInbox(running[current], s, y)
      BY DEF WithInbox
    <3> HIDE DEF y, s
    <3> QED
      BY <2>1, <3>1, Inboxed
  <2> HIDE DEF y, s
  <2>4. helpers' \in Seq(Helper) /\ Len(helpers') = Len(running)
        /\ \A h \in 1 .. Len(running) : helpers'[h] = IF h = current THEN y ELSE running[h]
    BY <1>2, <2>2, <2>3
  <2>5. ASSUME NEW h \in 1 .. Len(helpers')
        PROVE /\ Before(h) \in Helper /\ helpers'[h].state = Before(h).state
              /\ helpers'[h].outbox = Before(h).outbox
                   /\ helpers'[h].registry = Before(h).registry
              /\ helpers'[h].next = Before(h).next
              /\ helpers'[h].inbox \in {Before(h).inbox, Append(Before(h).inbox, request)}
    BY <1>2, <2>1, <2>3, <2>4 DEF s
  <2> QED
    BY <1>0, <1>2, <1>3, <2>4, <2>5, SMTT(30) DEF Calls, Rpc, NextId, request
<1>6. CASE running[current].state # "running"
  <2>1. helpers' = helpers /\ running = helpers
    BY <1>3, <1>4, <1>6
  <2>2. \A h \in 1 .. Len(helpers') : Before(h) = helpers'[h] /\ Before(h) \in Helper
    BY <1>2, <2>1 DEF Before
  <2>3. helpers' \in Seq(Helper) /\ child' \in 0 .. Len(helpers') /\ Len(helpers) <= Len(helpers')
    BY <1>2, <1>3, <2>1
  <2>4. calls' = calls + 1 /\ call' = [call EXCEPT ![o] = [state |-> "waiting", id |-> calls + 1,
          method |-> m, target |-> t]]
    BY DEF Rpc, NextId
  <2> QED
    BY <1>0, <2>2, <2>3, <2>4 DEF Calls
<1> QED
  BY <1>5, <1>6

\* What serving the first request changes.
Serves(h, r, l) ==
  /\ helpers[h].state = "running" /\ helpers[h].inbox # <<>>
  /\ r = Head(helpers[h].inbox) /\ r \in Request
  /\ l \in Line /\ l.id = r.id /\ l.method = r.method /\ l # TornLine
  /\ helpers' \in Seq(Helper) /\ Len(helpers') = Len(helpers)
  /\ \A g \in 1 .. Len(helpers) : g # h => helpers'[g] = helpers[g]
  /\ helpers'[h].state = "running"
  /\ helpers'[h].inbox = Tail(helpers[h].inbox)
  /\ helpers'[h].outbox = Append(helpers[h].outbox, l)
  /\ \/ r.method = "reset"
     \/ /\ r.method = "invoke" /\ l.result = [object |-> <<h, helpers[h].next>>]
        /\ helpers'[h].registry = helpers[h].registry \cup {helpers[h].next}
     \/ /\ helpers'[h].registry = helpers[h].registry
        /\ r.method = "invoke" => l.result = [error |-> TRUE]
  /\ UNCHANGED <<child, torn, calls, call, faults>>

\* What a handler of the helper changes, by its method.
LEMMA HandledFields ==
  ASSUME NEW x \in Helper, NEW h \in Nat, h \in 1 .. Len(helpers), x = helpers[h],
           NEW r \in Request, NEW result \in Answer(h, r)
  PROVE LET y == Handled(x, r, result)
        IN  /\ result \in Result /\ y \in Helper
            /\ y.inbox = x.inbox /\ y.outbox = x.outbox /\ y.state = x.state
            /\ \/ r.method = "reset"
               \/ /\ r.method = "invoke" /\ result = [object |-> <<h, x.next>>]
                  /\ y.registry = x.registry \cup {x.next} /\ y.next = x.next + 1
               \/ /\ y.registry = x.registry /\ y.next = x.next
                  /\ r.method = "invoke" => result = [error |-> TRUE]
<1> USE RequestFields, HelperFields DEF Method
<1>1. CASE r.method = "connect"
  BY <1>1 DEF Answer, Handled, Helper, Result
<1>2. CASE r.method = "reset"
  BY <1>2 DEF Answer, Handled, Helper, Result
<1>3. CASE r.method = "use"
  <2>1. Handled(x, r, result) = x
    BY <1>3 DEF Handled
  <2>2. CASE r.target \in x.registry
    <3>1. result = [object |-> <<h, r.target>>]
      BY <1>3, <2>2, OneResult DEF Answer
    <3> QED
      BY <1>3, <2>1, <3>1 DEF Result, Object
  <2>3. CASE r.target \notin x.registry
    <3>1. result = [error |-> TRUE]
      BY <1>3, <2>3, OneResult DEF Answer
    <3> QED
      BY <1>3, <2>1, <3>1 DEF Result
  <2> QED
    BY <2>2, <2>3
<1>4. CASE r.method = "invoke" /\ x.connected
  <2>1. result = [object |-> <<h, x.next>>]
    BY <1>4, OneResult DEF Answer
  <2>3. result \in Result
    BY <2>1 DEF Result, Object
  <2>2. Handled(x, r, result) = [x EXCEPT !.registry = @ \cup {x.next}, !.next = @ + 1]
    BY <1>4 DEF Handled
  <2> QED
    <3> DEFINE s == x.registry \cup {x.next}
               n == x.next + 1
    <3>1. s \in SUBSET Nat /\ n \in Nat \ {0}
      OBVIOUS
    <3>2. Handled(x, r, result) = [x EXCEPT !.registry = s, !.next = n]
      BY <2>2
    <3> HIDE DEF s, n
    <3>3. /\ Handled(x, r, result) \in Helper /\ Handled(x, r, result).inbox = x.inbox
          /\ Handled(x, r, result).outbox = x.outbox /\ Handled(x, r, result).state = x.state
          /\ Handled(x, r, result).registry = s /\ Handled(x, r, result).next = n
      <4>1. WithRegistry(x, s, n, Handled(x, r, result))
        BY <3>2 DEF WithRegistry
      <4> QED
        BY <3>1, <4>1, RegisteredObjects
    <3> QED
      BY <1>4, <2>1, <2>3, <3>3 DEF s, n
<1>5. CASE r.method = "invoke" /\ ~ x.connected
  <2>1. result = [error |-> TRUE] /\ result \in Result
    BY <1>5, OneResult DEF Answer, Result
  <2>2. Handled(x, r, result) = x
    BY <1>5 DEF Handled
  <2> QED
    BY <1>5, <2>1, <2>2
<1> QED
  BY <1>1, <1>2, <1>3, <1>4, <1>5

\* A helper that serves takes its first request and writes one line.
LEMMA ServeServes ==
  ASSUME BridgeOK, NEW h \in DOMAIN helpers, Serve(h)
  PROVE h \in 1 .. Len(helpers) /\ \E r \in Request, l \in Line : Serves(h, r, l)
<1> USE DEF BridgeOK, HelpersOK
<1> DEFINE x == helpers[h]
           r == Head(x.inbox)
<1>1. h \in 1 .. Len(helpers) /\ x \in Helper /\ x.inbox \in Seq(Request) /\ x.inbox # <<>>
        /\ r \in Request
      /\ Tail(x.inbox) \in Seq(Request)
  BY HelperFields DEF Serve
<1>2. PICK result \in Answer(h, r) :
        LET line == [id |-> r.id, method |-> r.method, result |-> result]
            after == Handled(x, r, result)
        IN  helpers' = [helpers EXCEPT ![h] = [after EXCEPT !.inbox = Tail(@),
          !.outbox = Append(@, line)]]
  BY DEF Serve
<1> DEFINE l == [id |-> r.id, method |-> r.method, result |-> result]
           y == Handled(x, r, result)
           z == [y EXCEPT !.inbox = Tail(@), !.outbox = Append(@, l)]
<1>3. /\ result \in Result /\ y \in Helper
      /\ y.inbox = x.inbox /\ y.outbox = x.outbox /\ y.state = x.state
      /\ \/ r.method = "reset"
         \/ /\ r.method = "invoke" /\ result = [object |-> <<h, x.next>>]
            /\ y.registry = x.registry \cup {x.next} /\ y.next = x.next + 1
         \/ /\ y.registry = x.registry /\ y.next = x.next
            /\ r.method = "invoke" => result = [error |-> TRUE]
  BY <1>1, HandledFields
<1>4. l \in Line /\ l.id = r.id /\ l.method = r.method /\ l.result = result /\ l # TornLine
  BY <1>1, <1>3, LineFields, RequestFields
<1>5. Append(y.outbox, l) \in Seq(Line)
  BY <1>3, <1>4, HelperFields
<1>6. helpers' = [helpers EXCEPT ![h] = z]
  BY <1>2
<1>7. /\ z \in Helper /\ z.inbox = Tail(y.inbox) /\ z.outbox = Append(y.outbox, l)
      /\ z.state = y.state /\ z.registry = y.registry /\ z.next = y.next
  <2>1. Tail(y.inbox) \in Seq(Request)
    BY <1>1, <1>3
  <2> HIDE DEF y, l
  <2> QED
    BY <1>3, <1>5, <2>1 DEF Helper
<1> HIDE DEF x, r, l, y, z
<1>8. helpers' \in Seq(Helper) /\ Len(helpers') = Len(helpers)
      /\ \A g \in 1 .. Len(helpers) : helpers'[g] = IF g = h THEN z ELSE helpers[g]
  BY <1>1, <1>6, <1>7
<1>9. Serves(h, r, l)
  BY <1>1, <1>3, <1>4, <1>7, <1>8 DEF Serves, Serve, x, r
<1> QED
  BY <1>1, <1>4, <1>9

-----------------------------------------------------------------------------
\* What a helper loses by a line that is read, by its death or by its exit.
Loses(x, y) ==
  /\ y.inbox \in {x.inbox, <<>>}
  /\ \/ y.outbox = x.outbox
     \/ x.outbox # <<>> /\ y.outbox = Tail(x.outbox)
     \/ y.outbox = Append(x.outbox, TornLine)
  /\ y.state = "running" => x.state = "running" /\ y.registry = x.registry

Quiet ==
  /\ helpers' \in Seq(Helper) /\ Len(helpers') = Len(helpers)
  /\ \A h \in 1 .. Len(helpers) : helpers'[h] \in Helper /\ Loses(helpers[h], helpers'[h])
  /\ calls' = calls
  /\ \A o \in Op : call'[o].state = "waiting" => call'[o] = call[o]

\* An answer, which its line carries, or a rejection.
Settles(o) ==
  \/ call'[o] = [state |-> "rejected"]
  \/ /\ Waiting(o)
     /\ \E h \in 1 .. Len(helpers) : \E line \in Out(h) :
              /\ line \in Line /\ line.id = call[o].id
              /\ call'[o] = [state |-> "answered", method |-> call[o].method,
                             to |-> line.method, result |-> line.result]

\* A helper that dies loses its requests, and at most tears the line it wrote.
LEMMA DeadLoses ==
  ASSUME BridgeOK, NEW h \in 1 .. Len(helpers), NEW y \in Dead(h)
  PROVE y \in Helper /\ Loses(helpers[h], y)
<1> DEFINE x == helpers[h]
           corpse == [NewHelper EXCEPT !.state = "dead", !.outbox = x.outbox]
<1>1. x \in Helper /\ x.outbox \in Seq(Line) /\ Append(x.outbox, TornLine) \in Seq(Line)
  BY HelperFields, LineFields DEF BridgeOK, HelpersOK
<1>2. corpse \in Helper /\ corpse.inbox = <<>> /\ corpse.outbox = x.outbox
        /\ corpse.state = "dead"
  <2>1. AsCorpse(NewHelper, x.outbox, corpse)
    BY DEF AsCorpse
  <2> HIDE DEF corpse, x
  <2> QED
    BY <1>1, <2>1, Died, NewHelperFields
<1>3. y = x \/ y = corpse \/ y = [corpse EXCEPT !.outbox = Append(@, TornLine)]
  BY DEF Dead
<1> HIDE DEF corpse
<1>4. ASSUME y = [corpse EXCEPT !.outbox = Append(@, TornLine)]
      PROVE y \in Helper /\ y.inbox = <<>> /\ y.outbox = Append(x.outbox, TornLine)
              /\ y.state = "dead"
  <2>1. y = [corpse EXCEPT !.outbox = Append(x.outbox, TornLine)]
    BY <1>2, <1>4
  <2>2. WithOutbox(corpse, Append(x.outbox, TornLine), y)
    BY <2>1 DEF WithOutbox
  <2> HIDE DEF x
  <2> QED
    BY <1>1, <1>2, <2>2, Outboxed, ZenonT(60)
<1> HIDE DEF x
<1>5. Loses(x, y) /\ y \in Helper
  BY <1>1, <1>2, <1>3, <1>4 DEF Loses
<1> QED
  BY <1>5 DEF x

\* A step that changes one helper leaves the others.
LEMMA OneLoses ==
  ASSUME BridgeOK, NEW h \in 1 .. Len(helpers), NEW y \in Helper, Loses(helpers[h], y),
         helpers' = [helpers EXCEPT ![h] = y], calls' = calls,
         \A o \in Op : call'[o].state = "waiting" => call'[o] = call[o]
  PROVE Quiet
<1>1. helpers' \in Seq(Helper) /\ Len(helpers') = Len(helpers)
      /\ \A g \in 1 .. Len(helpers) : helpers[g] \in Helper
           /\ helpers'[g] = IF g = h THEN y ELSE helpers[g]
  BY DEF BridgeOK, HelpersOK
<1>2. \A g \in 1 .. Len(helpers) : Loses(helpers[g], helpers[g])
  BY DEF Loses
<1> QED
  BY <1>1, <1>2 DEF Quiet

\* Every step of the bridge beside Serve: the helpers lose, and calls are settled.
QuietStep == Quiet /\ child' \in {child, 0} /\ \A o \in Op : call'[o] = call[o] \/ (Waiting(o)
  /\ Settles(o))

\* A line that is read settles the call of its number, or none.
LEMMA DeliverQuiet ==
  ASSUME BridgeOK, NEW h \in 1 .. Len(helpers), Deliver(h)
  PROVE QuietStep
<1> DEFINE x == helpers[h]
           y == [x EXCEPT !.outbox = Tail(x.outbox)]
           line == Head(x.outbox)
<1>1. x \in Helper /\ x.outbox \in Seq(Line) /\ x.outbox # <<>> /\ Tail(x.outbox) \in Seq(Line)
      /\ line \in Out(h) /\ line \in Line
  BY HelperFields, ItemsOf DEF BridgeOK, HelpersOK, Deliver, Out
<1>2. helpers' = [helpers EXCEPT ![h] = y] /\ calls' = calls /\ child' = child
  BY DEF Deliver
<1>3. ASSUME NEW o \in Op
      PROVE \/ call'[o] = call[o]
            \/ /\ Waiting(o) /\ line.id = call[o].id
               /\ call'[o] = [state |-> "answered", method |-> call[o].method,
                              to |-> line.method, result |-> line.result]
  <2>1. call' = [p \in Op |->
                   IF Waiting(p) /\ ~torn /\ line.id = call[p].id
                   THEN [state |-> "answered", method |-> call[p].method,
                         to |-> line.method, result |-> line.result]
                   ELSE call[p]]
    BY DEF Deliver
  <2> HIDE DEF x, line
  <2> QED
    BY <2>1, Zenon
<1>4. y \in Helper /\ y.inbox = x.inbox /\ y.outbox = Tail(x.outbox) /\ y.state = x.state
      /\ y.registry = x.registry
  <2>1. WithOutbox(x, Tail(x.outbox), y)
    BY DEF WithOutbox
  <2>2. x \in Helper /\ Tail(x.outbox) \in Seq(Line)
    BY <1>1
  <2> HIDE DEF x, y
  <2> QED
    BY <2>1, <2>2, Outboxed, ZenonT(60)
<1> HIDE DEF y
<1>5. Loses(x, y)
  BY <1>1, <1>4 DEF Loses
<1>6. ASSUME NEW o \in Op PROVE call'[o] = call[o] \/ (Waiting(o) /\ Settles(o))
  <2>1. CASE call'[o] # call[o]
    <3> HIDE DEF line, x
    <3> QED
      BY <1>1, <1>3, <2>1 DEF Settles
  <2> QED
    BY <2>1
<1>7. \A o \in Op : call'[o].state = "waiting" => call'[o] = call[o]
  <2> SUFFICES ASSUME NEW o \in Op, call'[o] # call[o] PROVE call'[o].state = "answered"
    OBVIOUS
  <2>1. call'[o] = [state |-> "answered", method |-> call[o].method, to |-> line.method,
          result |-> line.result]
    BY <1>3
  <2> HIDE DEF line, x
  <2> QED
    BY <2>1
<1>8. Quiet
  BY <1>2, <1>4, <1>5, <1>7, OneLoses
<1> QED
  BY <1>2, <1>6, <1>8 DEF QuietStep

Rejects(o) == call'[o] = call[o] \/ (Waiting(o) /\ call'[o] = [state |-> "rejected"])

\* A rejected call is settled.
LEMMA RejectsSettles ==
  ASSUME NEW o \in Op, Rejects(o)
  PROVE /\ call'[o] = call[o] \/ (Waiting(o) /\ Settles(o))
        /\ call'[o].state = "waiting" => call'[o] = call[o]
  BY DEF Settles, Rejects

\* A step that ends or marks a helper and rejects calls.
LEMMA RejectingQuiet ==
  ASSUME BridgeOK, NEW h \in 1 .. Len(helpers), NEW y \in Helper, Loses(helpers[h], y),
         helpers' = [helpers EXCEPT ![h] = y],
         calls' = calls, child' \in {child, 0}, \A o \in Op : Rejects(o)
  PROVE QuietStep
<1>1. Quiet
  BY OneLoses, RejectsSettles
<1> QED
  BY <1>1, RejectsSettles DEF QuietStep

\* A step that rejects calls while there is no helper.
LEMMA RejectingOnlyQuiet ==
  ASSUME BridgeOK, helpers' = helpers,
         calls' = calls, child' \in {child, 0}, \A o \in Op : Rejects(o)
  PROVE QuietStep
<1>1. Quiet
  BY RejectsSettles DEF Quiet, Loses, BridgeOK, HelpersOK
<1> QED
  BY <1>1, RejectsSettles DEF QuietStep

\* A step of the bridge serves a request, or only loses and settles.
LEMMA BridgeStepCases ==
  ASSUME BridgeOK, BridgeStep
  PROVE \/ \E h \in 1 .. Len(helpers) : \E r \in Request, l \in Line : Serves(h, r, l)
        \/ QuietStep
<1> USE DEF BridgeOK, HelpersOK
<1>1. ASSUME NEW h \in DOMAIN helpers, Serve(h) PROVE \E g \in 1 .. Len(helpers) : \E r \in
               Request, l \in Line : Serves(g, r, l)
  BY <1>1, ServeServes
<1>2. ASSUME NEW h \in DOMAIN helpers, Deliver(h) PROVE QuietStep
  BY <1>2, DeliverQuiet
<1>3. ASSUME NEW h \in DOMAIN helpers, Crash(h) PROVE QuietStep
  <2>0. h \in 1 .. Len(helpers)
    OBVIOUS
  <2>1. PICK y \in Dead(h) : helpers' = [helpers EXCEPT ![h] = y]
    BY <1>3 DEF Crash
  <2>2. y \in Helper /\ Loses(helpers[h], y)
    BY <2>1, DeadLoses
  <2>3. calls' = calls /\ child' = child /\ \A o \in Op : Rejects(o)
    BY <1>3 DEF Crash, Rejects
  <2> QED
    BY <2>0, <2>1, <2>2, <2>3, RejectingQuiet
<1>4. ASSUME NEW h \in DOMAIN helpers, Exit(h) PROVE QuietStep
  <2> DEFINE x == helpers[h]
             y == [x EXCEPT !.state = "gone"]
  <2>1. y \in Helper /\ Loses(x, y) /\ helpers' = [helpers EXCEPT ![h] = y]
    <3>1. x \in Helper
      OBVIOUS
    <3>2. y \in Helper /\ y.inbox = x.inbox /\ y.outbox = x.outbox /\ y.state = "gone"
      BY <3>1 DEF Helper
    <3> QED
      BY <1>4, <3>2 DEF Exit, Loses
  <2>2. \A o \in Op : Rejects(o)
    <3>1. call' = [o \in Op |-> IF Waiting(o) THEN [state |-> "rejected"] ELSE call[o]]
      BY <1>4 DEF Exit, RejectAll
    <3> QED
      BY <3>1 DEF Rejects, Waiting
  <2>3. calls' = calls /\ child' = 0
    BY <1>4 DEF Exit
  <2>5. h \in 1 .. Len(helpers)
    OBVIOUS
  <2> HIDE DEF y, x
  <2>4. y \in Helper /\ Loses(helpers[h], y)
    BY <2>1 DEF x
  <2> QED
    BY <2>1, <2>2, <2>3, <2>4, <2>5, RejectingQuiet
<1>5. ASSUME NEW o \in Op, Timeout(o) PROVE QuietStep
  <2>1. \A p \in Op : Rejects(p)
    <3>1. call' = [call EXCEPT ![o] = [state |-> "rejected"]] /\ Waiting(o)
            /\ call \in [Op -> Call]
      BY <1>5 DEF Timeout, CallsOK
    <3>2. ASSUME NEW p \in Op PROVE Rejects(p)
      BY <3>1 DEF Rejects
    <3> QED
      BY <3>2
  <2>4. calls' = calls /\ child' = child
    BY <1>5 DEF Timeout
  <2>2. CASE child = 0
    BY <1>5, <2>1, <2>2, <2>4, RejectingOnlyQuiet DEF Timeout
  <2>3. CASE child # 0
    <3>1. child \in 1 .. Len(helpers)
      BY <2>3
    <3>2. PICK y \in Dead(child) : helpers' = [helpers EXCEPT ![child] = y]
      BY <1>5, <2>3 DEF Timeout
    <3>3. y \in Helper /\ Loses(helpers[child], y)
      BY <3>1, <3>2, DeadLoses
    <3> QED
      BY <2>1, <2>4, <3>1, <3>2, <3>3, RejectingQuiet
  <2> QED
    BY <2>2, <2>3
<1>6. ASSUME Stop PROVE QuietStep
  <2>1. child \in 1 .. Len(helpers)
    BY <1>6 DEF Stop
  <2>2. PICK y \in Dead(child) : helpers' = [helpers EXCEPT ![child] = y]
    BY <1>6 DEF Stop
  <2>3. y \in Helper /\ Loses(helpers[child], y)
    BY <2>1, <2>2, DeadLoses
  <2>4. calls' = calls /\ child' = 0 /\ \A o \in Op : Rejects(o)
    BY <1>6 DEF Stop, Rejects
  <2> QED
    BY <2>1, <2>2, <2>3, <2>4, RejectingQuiet
<1> QED
  BY <1>1, <1>2, <1>3, <1>4, <1>5, <1>6 DEF BridgeStep

\* An operation takes up an answer: nothing happens in the bridge.
LEMMA ConsumeQuiet ==
  ASSUME BridgeOK, NEW o \in Op, Consume(o)
  PROVE Quiet /\ call' = [call EXCEPT ![o] = NoCall] /\ child' = child
  BY DEF Consume, Quiet, Loses, BridgeOK, HelpersOK, CallsOK, NoCall

-----------------------------------------------------------------------------
\* What is in the pipes after a call ...
LEMMA CallsViews ==
  ASSUME BridgeOK, NEW o \in Op, NEW m \in Method, NEW t \in Nat, Calls(o, m, t),
         NEW h \in 1 .. Len(helpers')
  PROVE /\ In(h)' \subseteq (IF h \in 1 .. Len(helpers) THEN In(h) ELSE {}) \cup {RequestOf(m, t)}
        /\ Out(h)' \subseteq (IF h \in 1 .. Len(helpers) THEN Out(h) ELSE {})
<1> DEFINE x == Before(h)
           y == helpers'[h]
<1>1. x \in Helper /\ y.outbox = x.outbox /\ y.inbox \in {x.inbox, Append(x.inbox, RequestOf(m,
        t))}
      /\ x.inbox \in Seq(Request) /\ x.outbox \in Seq(Line)
  BY HelperFields DEF Calls
<1>2. h \in 1 .. Len(helpers) => x = helpers[h]
  BY DEF Before
<1>3. h \notin 1 .. Len(helpers) => x.inbox = <<>> /\ x.outbox = <<>>
  BY NewHelperFields DEF Before
<1> HIDE DEF x
<1>4. In(h)' = Items(y.inbox) /\ Out(h)' = Items(y.outbox)
  BY DEF In, Out
<1>5. RequestOf(m, t) \in Request
  BY RequestFields, BridgeAssumption DEF RequestOf, NextId, Calls, BridgeOK, CallsOK
<1> HIDE DEF y
<1>6. In(h)' \subseteq Items(x.inbox) \cup {RequestOf(m, t)} /\ Out(h)' = Items(x.outbox)
  <2>1. Items(Append(x.inbox, RequestOf(m, t))) = Items(x.inbox) \cup {RequestOf(m, t)}
    BY <1>1, <1>5, ItemsOf
  <2>2. CASE y.inbox = x.inbox
    BY <1>1, <1>4, <2>2
  <2>3. CASE y.inbox = Append(x.inbox, RequestOf(m, t))
    BY <1>1, <1>4, <2>1, <2>3
  <2> QED
    BY <1>1, <2>2, <2>3
<1>7. CASE h \in 1 .. Len(helpers)
  BY <1>2, <1>6, <1>7 DEF In, Out
<1>8. CASE h \notin 1 .. Len(helpers)
  BY <1>3, <1>6, <1>8, <1>1, ItemsOf
<1> QED
  BY <1>7, <1>8

\* ... after a request was served ...
LEMMA ServesViews ==
  ASSUME BridgeOK, NEW h \in 1 .. Len(helpers), NEW r \in Request, NEW l \in Line, Serves(h, r,
           l),
         NEW g \in 1 .. Len(helpers)
  PROVE /\ r \in In(h) /\ In(g)' \subseteq In(g)
        /\ Out(g)' \subseteq Out(g) \cup {l}
        /\ g # h => Out(g)' = Out(g) /\ In(g)' = In(g)
<1>1. r \in In(h)
  BY HelperFields, ItemsOf DEF Serves, In, BridgeOK, HelpersOK
<1>2. CASE g # h
  BY <1>1, <1>2 DEF Serves, In, Out
<1>3. CASE g = h
  <2>1. /\ helpers[h].inbox \in Seq(Request) /\ helpers[h].outbox \in Seq(Line)
        /\ helpers[h].inbox # <<>>
        /\ helpers'[h].inbox = Tail(helpers[h].inbox)
        /\ helpers'[h].outbox = Append(helpers[h].outbox, l)
    BY HelperFields DEF Serves, BridgeOK, HelpersOK
  <2>2. In(h)' \subseteq In(h)
    BY <2>1, ItemsOf DEF In
  <2>3. Out(h)' \subseteq Out(h) \cup {l}
    BY <2>1, ItemsOf DEF Out
  <2> QED
    BY <1>1, <1>3, <2>2, <2>3
<1> QED
  BY <1>2, <1>3

\* ... and after a step that only loses.
LEMMA QuietViews ==
  ASSUME BridgeOK, Quiet, NEW h \in 1 .. Len(helpers)
  PROVE In(h)' \subseteq In(h) /\ Out(h)' \subseteq Out(h) \cup {TornLine}
<1> DEFINE x == helpers[h]
           y == helpers'[h]
<1>1. x \in Helper /\ Loses(x, y) /\ x.inbox \in Seq(Request) /\ x.outbox \in Seq(Line)
  BY HelperFields DEF Quiet, BridgeOK, HelpersOK
<1>2. In(h)' = Items(y.inbox) /\ Out(h)' = Items(y.outbox) /\ In(h) = Items(x.inbox)
        /\ Out(h) = Items(x.outbox)
  BY DEF In, Out
<1> HIDE DEF x, y
<1>3. In(h)' \subseteq In(h)
  BY <1>1, <1>2, ItemsOf DEF Loses
<1>4. Out(h)' \subseteq Out(h) \cup {TornLine}
  <2>1. CASE y.outbox = x.outbox
    BY <1>2, <2>1
  <2>2. CASE x.outbox # <<>> /\ y.outbox = Tail(x.outbox)
    BY <1>1, <1>2, <2>2, ItemsOf
  <2>3. CASE y.outbox = Append(x.outbox, TornLine)
    <3>1. TornLine \in Line
      BY LineFields
    <3>2. Items(Append(x.outbox, TornLine)) = Items(x.outbox) \cup {TornLine}
      BY <1>1, <3>1, ItemsOf
    <3> QED
      BY <1>2, <2>3, <3>2
  <2> QED
    BY <1>1, <2>1, <2>2, <2>3 DEF Loses
<1> QED
  BY <1>3, <1>4

\* What a call may become beside a new call.
Ends == \A o \in Op : \/ call'[o] = call[o] \/ call'[o] = NoCall
                      \/ Waiting(o) /\ Settles(o)

\* The answer that settles a call carries its number, hence its method.
LEMMA IdsQuiet ==
  ASSUME BridgeOK, IdsInv, Quiet, Ends PROVE IdsInv'
<1>1. \A o \in Op : Waiting(o)' => call'[o] = call[o] /\ Waiting(o)
  BY DEF Quiet, Waiting
<1>2. calls' = calls /\ calls \in Nat /\ Len(helpers') = Len(helpers)
        /\ \A o \in Op : Waiting(o) => call[o].id # 0
  BY CallFields, BridgeAssumption DEF Quiet, BridgeOK, CallsOK, Waiting
<1>3. Numbers'
  BY <1>1, <1>2, QuietViews, LineFields DEF IdsInv, Numbers
<1>4. Matching'
  BY <1>1, <1>2, QuietViews, LineFields DEF IdsInv, Matching
<1>5. ASSUME NEW o \in Op, call'[o].state = "answered" PROVE call'[o].to = call'[o].method
  <2>1. CASE call'[o] = call[o]
    BY <1>5, <2>1 DEF IdsInv, AnswersMatch
  <2>2. CASE Waiting(o) /\ Settles(o)
    <3>0. PICK h \in 1 .. Len(helpers) : \E line \in Out(h) :
            /\ line.id = call[o].id
            /\ call'[o] = [state |-> "answered", method |-> call[o].method, to |-> line.method,
                 result |-> line.result]
      <4>1. call'[o] # [state |-> "rejected"]
        BY <1>5
      <4> QED
        BY <2>2, <4>1 DEF Settles
    <3>1. PICK line \in Out(h) :
            /\ line.id = call[o].id
            /\ call'[o] = [state |-> "answered", method |-> call[o].method, to |-> line.method,
                 result |-> line.result]
      BY <3>0
    <3>2. line.method = call[o].method
      BY <2>2, <3>1 DEF IdsInv, Matching
    <3> QED
      BY <3>1, <3>2
  <2>3. CASE call'[o] = NoCall
    BY <1>5, <2>3 DEF NoCall
  <2> QED
    BY <2>1, <2>2, <2>3 DEF Ends
<1> QED
  BY <1>3, <1>4, <1>5 DEF IdsInv, AnswersMatch

\* A line has the number of the request it answers.
LEMMA IdsServes ==
  ASSUME BridgeOK, IdsInv, NEW h \in 1 .. Len(helpers), NEW r \in Request, NEW l \in Line,
           Serves(h, r, l)
  PROVE IdsInv'
<1>1. call' = call /\ calls' = calls /\ Len(helpers') = Len(helpers) /\ l.id = r.id
        /\ l.method = r.method
  BY DEF Serves
<1>2. Numbers'
  BY <1>1, ServesViews DEF IdsInv, Numbers, Waiting
<1>3. Matching'
  BY <1>1, ServesViews DEF IdsInv, Matching, Waiting
<1> QED
  BY <1>1, <1>2, <1>3 DEF IdsInv, AnswersMatch

\* The number of a new call is in no pipe.
LEMMA IdsCalls ==
  ASSUME BridgeOK, IdsInv, NEW o \in Op, NEW m \in Method, NEW t \in Nat, Calls(o, m, t)
  PROVE IdsInv'
<1> DEFINE r == RequestOf(m, t)
<1>1. calls \in Nat /\ calls' = calls + 1 /\ r.id = calls + 1 /\ r.method = m
  BY BridgeAssumption DEF BridgeOK, CallsOK, Calls, RequestOf, NextId
<1>2. \A p \in Op : call'[p] = IF p = o THEN [state |-> "waiting", id |-> calls + 1,
        method |-> m, target |-> t] ELSE call[p]
  BY DEF Calls, BridgeOK, CallsOK
<1>3. ASSUME NEW h \in 1 .. Len(helpers'), NEW x \in (In(h) \cup Out(h))'
      PROVE x = r \/ (h \in 1 .. Len(helpers) /\ x \in In(h) \cup Out(h))
  BY CallsViews
<1> HIDE DEF r
<1>0. \A p \in Op : Waiting(p) => call[p].id \in Nat
  BY CallFields DEF Waiting, BridgeOK, CallsOK
<1>6. \A h \in 1 .. Len(helpers) : \A x \in In(h) \cup Out(h) : x.id \in Nat
  BY LineFields, RequestFields, HelperFields, ItemsOf DEF In, Out, BridgeOK, HelpersOK
<1>4. Numbers'
  BY <1>0, <1>1, <1>2, <1>3, <1>6 DEF IdsInv, Numbers, Waiting
<1>5. Matching'
  BY <1>0, <1>1, <1>2, <1>3, <1>6 DEF IdsInv, Numbers, Matching, Waiting
<1>7. AnswersMatch'
  BY <1>2 DEF IdsInv, AnswersMatch
<1> QED
  BY <1>4, <1>5, <1>7 DEF IdsInv

-----------------------------------------------------------------------------
\* The three kinds of step.
Tabled == call' = [o \in Op |-> call'[o]]
SettlesOnly == Quiet /\ Ends /\ child' \in {child, 0} /\ Tabled

\* Every step of the bridge leaves a call for every operation.
LEMMA BridgeStepTables ==
  ASSUME BridgeOK, BridgeStep PROVE Tabled
<1>1. call = [o \in Op |-> call[o]]
  BY DEF BridgeOK, CallsOK
<1>2. ASSUME NEW h \in DOMAIN helpers, Serve(h) \/ Crash(h) PROVE Tabled
  BY <1>1, <1>2 DEF Serve, Crash, Tabled
<1>3. ASSUME NEW h \in DOMAIN helpers, Deliver(h) PROVE Tabled
  BY <1>3 DEF Deliver, Tabled
<1>4. ASSUME NEW h \in DOMAIN helpers, Exit(h) PROVE Tabled
  BY <1>4 DEF Exit, RejectAll, Tabled
<1>5. ASSUME NEW o \in Op, Timeout(o) PROVE Tabled
  BY <1>1, <1>5 DEF Timeout, Tabled
<1>6. Stop => Tabled
  BY <1>1 DEF Stop, Tabled
<1> QED
  BY <1>2, <1>3, <1>4, <1>5, <1>6 DEF BridgeStep

\* The steps that do not call, by what they leave of the bridge.
LEMMA UnchangedSettles ==
  ASSUME BridgeOK, UNCHANGED bridgeVars PROVE SettlesOnly
<1>1. call' = call /\ helpers' = helpers /\ calls' = calls /\ child' = child
  BY DEF bridgeVars
<1> QED
  BY <1>1 DEF SettlesOnly, Tabled, Quiet, Ends, Loses, BridgeOK, HelpersOK, CallsOK

LEMMA ConsumeSettles ==
  ASSUME BridgeOK, NEW o \in Op, Consume(o) PROVE SettlesOnly
<1>1. Quiet /\ call' = [call EXCEPT ![o] = NoCall] /\ child' = child
  BY ConsumeQuiet
<1> QED
  BY <1>1 DEF SettlesOnly, Tabled, Ends, BridgeOK, CallsOK

LEMMA QuietSettles ==
  ASSUME QuietStep, Tabled PROVE SettlesOnly
BY DEF QuietStep, SettlesOnly, Ends

\* The four methods that operations call.
LEMMA CallKinds ==
  ASSUME BridgeOK, NEW o \in Op
  PROVE /\ Rpc(o, "connect", 0) => Calls(o, "connect", 0)
        /\ Rpc(o, "reset", 0) => Calls(o, "reset", 0)
        /\ Rpc(o, "invoke", 0) => Calls(o, "invoke", 0)
        /\ Rpc(o, "use", held[o][2]) => Calls(o, "use", held[o][2]) /\ held[o][2] \in Nat
BY RpcCalls DEF Method, BridgeOK, PlacesOK, Object

StepKind ==
  \/ \E o \in Op, m \in Method, t \in Nat : Calls(o, m, t)
  \/ \E h \in 1 .. Len(helpers) : \E r \in Request, l \in Line : Serves(h, r, l)
  \/ SettlesOnly

\* Every step is of one of the three kinds.
LEMMA StepKinds ==
  ASSUME BridgeOK, [Next]_vars PROVE StepKind
<1>1. ASSUME NEW o \in Op, NEW m \in Method, NEW t \in Nat, Calls(o, m, t) PROVE StepKind
  BY <1>1 DEF StepKind
<1>2. ASSUME NEW o \in Op, OpStep(o) PROVE StepKind
  <2>1. CASE BeginOp(o) \/ EndOp(o)
    BY <2>1, UnchangedSettles DEF BeginOp, EndOp, Leave, StepKind
  <2>2. CASE GetResolve(o)
    BY <1>1, <2>2, UnchangedSettles, CallKinds DEF GetResolve, StepKind, Method
  <2>3. CASE AfterConnect(o)
    BY <1>1, <2>3, ConsumeSettles, CallKinds DEF AfterConnect, StepKind, Method
  <2>4. CASE AfterReset(o)
    BY <2>4, ConsumeSettles DEF AfterReset, StepKind
  <2>5. CASE Take(o)
    BY <1>1, <2>5, CallKinds DEF Take, Method
  <2>6. CASE Use(o)
    BY <1>1, <2>6, CallKinds DEF Use, Method
  <2>7. CASE AfterCall(o)
    BY <2>7, ConsumeSettles DEF AfterCall, StepKind
  <2> QED
    BY <1>2, <2>1, <2>2, <2>3, <2>4, <2>5, <2>6, <2>7 DEF OpStep
<1>3. CASE BridgeStep
  BY <1>3, BridgeStepCases, BridgeStepTables, QuietSettles DEF StepKind
<1>4. CASE UNCHANGED vars
  BY <1>4, UnchangedSettles DEF vars, StepKind
<1> QED
  BY <1>2, <1>3, <1>4 DEF Next

\* A settled call is a call: its line is not torn.
LEMMA SettledCalls ==
  ASSUME BridgeOK, NEW o \in Op, Waiting(o), Settles(o)
  PROVE /\ call'[o] \in Call
        /\ \/ call'[o].state = "rejected"
           \/ call'[o].state = "answered" /\ call'[o].method = call[o].method
<1>0. call[o] \in Call
  BY DEF BridgeOK, CallsOK
<1>1. CASE call'[o] = [state |-> "rejected"]
  BY <1>1, CallMade
<1>2. CASE call'[o] # [state |-> "rejected"]
  <2>1. PICK h \in 1 .. Len(helpers) : \E line \in Out(h) :
          /\ line \in Line /\ line.id = call[o].id
          /\ call'[o] = [state |-> "answered", method |-> call[o].method, to |-> line.method,
               result |-> line.result]
    BY <1>2 DEF Settles
  <2>2. PICK line \in Out(h) :
          /\ line \in Line /\ line.id = call[o].id
          /\ call'[o] = [state |-> "answered", method |-> call[o].method, to |-> line.method,
               result |-> line.result]
    BY <2>1
  <2>3. call[o].id \in 1 .. MaxCalls /\ call[o].method \in Method
    BY <1>0, CallFields DEF Waiting
  <2>4. line # TornLine
    BY <2>2, <2>3, LineFields
  <2>5. line.method \in Method /\ line.result \in Result
    BY <2>2, <2>4, LineFields
  <2>6. call'[o] \in Call
    BY <2>2, <2>3, <2>5, CallMade
  <2> QED
    BY <2>2, <2>6
<1> QED
  BY <1>1, <1>2

\* Every step keeps helpers and calls typed.
LEMMA TypesKept ==
  ASSUME BridgeOK, StepKind PROVE HelpersOK' /\ CallsOK'
<1> USE DEF BridgeOK, HelpersOK, CallsOK
<1>1. ASSUME NEW o \in Op, NEW m \in Method, NEW t \in Nat, Calls(o, m, t)
               PROVE HelpersOK' /\ CallsOK'
  <2>1. HelpersOK'
    BY <1>1 DEF Calls
  <2>2. calls + 1 \in 1 .. MaxCalls /\ calls' = calls + 1
    BY <1>1, BridgeAssumption DEF Calls
  <2>3. [state |-> "waiting", id |-> calls + 1, method |-> m, target |-> t] \in Call
    BY <2>2, CallMade
  <2>4. calls' \in 0 .. MaxCalls
    BY <2>2, BridgeAssumption
  <2> QED
    BY <1>1, <2>1, <2>3, <2>4 DEF Calls
<1>2. ASSUME NEW h \in 1 .. Len(helpers), NEW r \in Request, NEW l \in Line, Serves(h, r, l)
               PROVE HelpersOK' /\ CallsOK'
  BY <1>2 DEF Serves
<1>3. ASSUME SettlesOnly PROVE HelpersOK' /\ CallsOK'
  <2>1. HelpersOK' /\ calls' = calls
    BY <1>3 DEF SettlesOnly, Quiet
  <2>2. \A o \in Op : call'[o] \in Call
    BY <1>3, SettledCalls, CallMade DEF SettlesOnly, Ends
  <2> QED
    BY <1>3, <2>1, <2>2 DEF SettlesOnly, Tabled
<1> QED
  BY <1>1, <1>2, <1>3 DEF StepKind

\* Every step keeps the numbers apart.
LEMMA IdsKept ==
  ASSUME BridgeOK, IdsInv, StepKind PROVE IdsInv'
BY IdsCalls, IdsServes, IdsQuiet DEF StepKind, SettlesOnly

\* Every step keeps the requests of a helper in the order of their numbers.
LEMMA OrderKept ==
  ASSUME BridgeOK, IdsInv, HelpersInOrder, StepKind PROVE HelpersInOrder'
<1>1. ASSUME NEW o \in Op, NEW m \in Method, NEW t \in Nat, Calls(o, m, t) PROVE HelpersInOrder'
  <2> SUFFICES ASSUME NEW h \in 1 .. Len(helpers'), NEW j \in 1 .. Len(helpers'[h].inbox),
                      NEW k \in 1 .. Len(helpers'[h].inbox), j < k
               PROVE helpers'[h].inbox[j].id < helpers'[h].inbox[k].id
    BY DEF HelpersInOrder
  <2> DEFINE x == Before(h)
             s == x.inbox
             r == RequestOf(m, t)
  <2>1. x \in Helper /\ s \in Seq(Request) /\ helpers'[h].inbox \in {s, Append(s, r)}
    BY <1>1, HelperFields DEF Calls
  <2>2. \A a, b \in 1 .. Len(s) : a < b => s[a].id < s[b].id
    BY NewHelperFields DEF Before, HelpersInOrder
  <2>3. \A a \in 1 .. Len(s) : s[a].id <= calls
    BY NewHelperFields DEF Before, IdsInv, Numbers, In, Items
  <2>4. r.id = calls + 1
    BY DEF RequestOf, NextId
  <2>5. calls \in Nat /\ \A a \in 1 .. Len(s) : s[a].id \in Nat
    BY <2>1, RequestFields, BridgeAssumption DEF BridgeOK, CallsOK
  <2> HIDE DEF x, s, r
  <2>6. CASE helpers'[h].inbox = s
    BY <2>2, <2>6
  <2>7. CASE helpers'[h].inbox = Append(s, r)
    <3>1. /\ Len(Append(s, r)) = Len(s) + 1 /\ Append(s, r)[Len(s) + 1] = r
          /\ \A a \in 1 .. Len(s) : Append(s, r)[a] = s[a]
      BY <2>1
    <3>2. CASE k \in 1 .. Len(s)
      BY <2>1, <2>2, <2>7, <3>1, <3>2
    <3>3. CASE k = Len(s) + 1
      <4>1. j \in 1 .. Len(s)
        BY <2>1, <2>7, <3>1, <3>3
      <4> QED
        BY <2>3, <2>4, <2>5, <2>7, <3>1, <3>3, <4>1
    <3> QED
      BY <2>1, <2>7, <3>1, <3>2, <3>3
  <2> QED
    BY <2>1, <2>6, <2>7
<1>2. ASSUME NEW h \in 1 .. Len(helpers), NEW r \in Request, NEW l \in Line, Serves(h, r, l)
               PROVE HelpersInOrder'
  <2> SUFFICES ASSUME NEW g \in 1 .. Len(helpers), NEW j \in 1 .. Len(helpers'[g].inbox),
                      NEW k \in 1 .. Len(helpers'[g].inbox), j < k
               PROVE helpers'[g].inbox[j].id < helpers'[g].inbox[k].id
    BY <1>2 DEF HelpersInOrder, Serves
  <2> DEFINE s == helpers[g].inbox
  <2>1. s \in Seq(Request) /\ \A a, b \in 1 .. Len(s) : a < b => s[a].id < s[b].id
    BY HelperFields DEF HelpersInOrder, BridgeOK, HelpersOK
  <2>2. helpers'[g].inbox = s \/ (s # <<>> /\ helpers'[g].inbox = Tail(s))
    BY <1>2 DEF Serves
  <2> HIDE DEF s
  <2>3. CASE helpers'[g].inbox = s
    BY <2>1, <2>3
  <2>4. CASE s # <<>> /\ helpers'[g].inbox = Tail(s)
    <3>1. Len(Tail(s)) = Len(s) - 1 /\ Len(s) \in Nat
            /\ \A a \in 1 .. Len(s) - 1 : Tail(s)[a] = s[a + 1]
      BY <2>1, <2>4
    <3>2. /\ j + 1 \in 1 .. Len(s) /\ k + 1 \in 1 .. Len(s) /\ j + 1 < k + 1
          /\ helpers'[g].inbox[j] = s[j + 1] /\ helpers'[g].inbox[k] = s[k + 1]
      BY <2>4, <3>1
    <3> QED
      BY <2>1, <3>2
  <2> QED
    BY <2>2, <2>3, <2>4
<1>3. ASSUME SettlesOnly PROVE HelpersInOrder'
  <2> SUFFICES ASSUME NEW h \in 1 .. Len(helpers)
               PROVE \A j, k \in 1 .. Len(helpers'[h].inbox) : j < k
                       => helpers'[h].inbox[j].id < helpers'[h].inbox[k].id
    BY <1>3 DEF HelpersInOrder, SettlesOnly, Quiet
  <2>1. helpers'[h].inbox \in {helpers[h].inbox, <<>>}
    BY <1>3 DEF SettlesOnly, Quiet, Loses
  <2> QED
    BY <2>1 DEF HelpersInOrder
<1> QED
  BY <1>1, <1>2, <1>3 DEF StepKind

-----------------------------------------------------------------------------
\* What a step of the bridge does to a call that an operation awaits.
LEMMA BridgeCalls ==
  ASSUME BridgeOK, BridgeStep, NEW o \in Op
  PROVE \/ call'[o] = call[o]
        \/ /\ call[o].state = "waiting" /\ call[o] # NoCall /\ call'[o] # NoCall
           /\ \/ call'[o].state = "rejected"
              \/ call'[o].state = "answered" /\ call'[o].method = call[o].method
<1>1. CASE call' = call
  BY <1>1
<1>2. CASE QuietStep
  <2>1. CASE Waiting(o) /\ Settles(o)
    BY <2>1, SettledCalls DEF Waiting, NoCall
  <2> QED
    BY <1>2, <2>1 DEF QuietStep
<1> QED
  BY <1>1, <1>2, BridgeStepCases DEF Serves

\* Only a result that has an object names one.
LEMMA ResultObjects ==
  ASSUME NEW r \in Result, "object" \in DOMAIN r PROVE r.object \in Object
<1>1. r \in [connected : BOOLEAN] => "object" \notin DOMAIN r
  OBVIOUS
<1>2. r \in [ok : {TRUE}] => "object" \notin DOMAIN r
  OBVIOUS
<1>3. r \in [error : {TRUE}] => "object" \notin DOMAIN r
  OBVIOUS
<1> QED
  BY <1>1, <1>2, <1>3 DEF Result

\* Every step keeps operations at a place of their code.
LEMMA PlacesKept ==
  ASSUME BridgeOK, [Next]_vars PROVE PlacesOK'
<1> USE DEF BridgeOK, PlacesOK
<1>1. ASSUME NEW o \in Op, OpStep(o) PROVE PlacesOK'
  <2>1. CASE BeginOp(o)
    BY <2>1 DEF BeginOp, Goto
  <2>2. CASE EndOp(o)
    BY <2>2 DEF EndOp, Leave, Goto, Object, NoObject
  <2>3. CASE GetResolve(o)
    BY <2>3 DEF GetResolve, Goto
  <2>4. CASE AfterConnect(o)
    BY <2>4 DEF AfterConnect, Goto
  <2>5. CASE AfterReset(o)
    BY <2>5 DEF AfterReset, Goto
  <2>6. CASE Take(o)
    BY <2>6 DEF Take, Goto
  <2>7. CASE Use(o)
    BY <2>7 DEF Use, Goto
  <2>8. CASE AfterCall(o)
    <3>1. CASE UNCHANGED held
      BY <2>8, <3>1 DEF AfterCall, Goto
    <3>2. CASE held' # held
      <4>1. call[o].state = "answered" /\ "object" \in DOMAIN call[o].result
            /\ held' = [held EXCEPT ![o] = call[o].result.object]
                 /\ at' = [at EXCEPT ![o] = "ready"]
        BY <2>8, <3>2 DEF AfterCall, Goto, Settled
      <4>2. call[o].result \in Result
        BY <4>1, CallFields DEF CallsOK
      <4>3. call[o].result.object \in Object
        BY <4>1, <4>2, ResultObjects
      <4> QED
        BY <4>1, <4>3
    <3> QED
      BY <3>1, <3>2
  <2> QED
    BY <1>1, <2>1, <2>2, <2>3, <2>4, <2>5, <2>6, <2>7, <2>8 DEF OpStep
<1>2. CASE UNCHANGED handleVars
  BY <1>2 DEF handleVars
<1> QED
  BY <1>1, <1>2 DEF Next, vars

CallAt(o) ==
  /\ at[o] \in {"idle", "begun", "ready", "failed"} <=> call[o] = NoCall
  /\ call[o].state \in {"waiting", "answered"} =>
       /\ at[o] = "connecting" <=> call[o].method = "connect"
       /\ at[o] \in {"clearing", "resetting"} <=> call[o].method = "reset"
  /\ at[o] = "idle" => held[o] = NoObject

\* An operation that calls waits at the place of that call.
LEMMA CallAtCalls ==
  ASSUME BridgeOK, NEW o \in Op, NEW m \in Method, NEW t \in Nat, Calls(o, m, t), NEW place,
           at' = [at EXCEPT ![o] = place],
         \/ m = "connect" /\ place = "connecting"
         \/ m = "reset" /\ place \in {"clearing", "resetting"}
         \/ m \in {"invoke", "use"} /\ place = "calling"
  PROVE /\ CallAt(o)' /\ call'[o].state = "waiting" /\ call'[o].method = m
             /\ call'[o].id = calls + 1
        /\ \A p \in Op \ {o} : call'[p] = call[p] /\ at'[p] = at[p]
<1>1. call'[o] = [state |-> "waiting", id |-> calls + 1, method |-> m, target |-> t]
  BY DEF Calls, BridgeOK, CallsOK
<1>2. at'[o] = place /\ \A p \in Op \ {o} : call'[p] = call[p] /\ at'[p] = at[p]
  BY DEF Calls, BridgeOK, CallsOK, PlacesOK
<1>3. call'[o] # NoCall /\ call'[o].state = "waiting" /\ call'[o].method = m
        /\ call'[o].id = calls + 1
  BY <1>1 DEF NoCall
<1> QED
  BY <1>2, <1>3 DEF CallAt

\* An operation that takes up an answer has no call.
LEMMA CallAtConsumes ==
  ASSUME BridgeOK, NEW o \in Op, Consume(o), NEW place \in {"ready", "failed"},
           at' = [at EXCEPT ![o] = place]
  PROVE /\ CallAt(o)' /\ call'[o] = NoCall
        /\ \A p \in Op \ {o} : call'[p] = call[p] /\ at'[p] = at[p]
<1>1. call' = [call EXCEPT ![o] = NoCall]
  BY ConsumeQuiet
<1>2. call'[o] = NoCall /\ at'[o] = place /\ \A p \in Op \ {o} : call'[p] = call[p]
        /\ at'[p] = at[p]
  BY <1>1 DEF BridgeOK, CallsOK, PlacesOK
<1> QED
  BY <1>2 DEF CallAt, NoCall

\* Every step keeps the calls of operations where their code is.
LEMMA CallsKept ==
  ASSUME BridgeOK, \A p \in Op : CallAt(p), [Next]_vars PROVE \A p \in Op : CallAt(p)'
<1> USE DEF BridgeOK, CallsOK, PlacesOK
<1>1. ASSUME NEW p \in Op, call'[p] = call[p], at'[p] = at[p], held'[p] = held[p] PROVE CallAt(p)'
  BY <1>1 DEF CallAt
<1>2. ASSUME NEW o \in Op, OpStep(o) PROVE \A p \in Op : CallAt(p)'
  <2>0. ASSUME \A p \in Op \ {o} : call'[p] = call[p] /\ at'[p] = at[p]
                 /\ held'[p] = held[p], CallAt(o)'
        PROVE \A p \in Op : CallAt(p)'
    BY <1>1, <2>0
  <2>1. CASE BeginOp(o)
    <3>1. CallAt(o)' /\ call' = call
      BY <2>1 DEF BeginOp, Goto, bridgeVars, CallAt, NoCall
    <3> QED
      BY <2>0, <2>1, <3>1 DEF BeginOp, Goto
  <2>2. CASE EndOp(o)
    <3>1. CallAt(o)' /\ call' = call
      BY <2>2 DEF EndOp, Leave, Goto, bridgeVars, CallAt, NoCall, NoObject
    <3> QED
      BY <2>0, <2>2, <3>1 DEF EndOp, Leave, Goto
  <2>3. CASE GetResolve(o)
    <3>1. CASE Rpc(o, "connect", 0) /\ Goto(o, "connecting")
      <4>1. Calls(o, "connect", 0) /\ at' = [at EXCEPT ![o] = "connecting"] /\ held' = held
        BY <2>3, <3>1, CallKinds DEF GetResolve, Goto
      <4> QED
        BY <2>0, <4>1, CallAtCalls DEF Method
    <3>2. CASE UNCHANGED bridgeVars /\ Goto(o, "failed")
      <4>1. at' = [at EXCEPT ![o] = "failed"] /\ held' = held /\ call' = call /\ CallAt(o)'
        BY <2>3, <3>2 DEF GetResolve, Goto, bridgeVars, CallAt
      <4> QED
        BY <2>0, <4>1
    <3> QED
      BY <2>3, <3>1, <3>2 DEF GetResolve
  <2>4. CASE AfterConnect(o)
    <3>1. CASE Rpc(o, "reset", 0) /\ Goto(o, IF opDepth = 0 THEN "clearing" ELSE "resetting")
      <4>1. Calls(o, "reset", 0) /\ held' = held
        BY <2>4, <3>1, CallKinds DEF AfterConnect
      <4> DEFINE place == IF opDepth = 0 THEN "clearing" ELSE "resetting"
      <4>2. at' = [at EXCEPT ![o] = place] /\ place \in {"clearing", "resetting"}
        BY <3>1 DEF Goto
      <4> HIDE DEF place
      <4> QED
        BY <2>0, <4>1, <4>2, CallAtCalls DEF Method
    <3>2. CASE Consume(o) /\ (Goto(o, "ready") \/ Goto(o, "failed"))
      BY <2>0, <2>4, <3>2, CallAtConsumes DEF AfterConnect, Goto
    <3> QED
      BY <2>4, <3>1, <3>2 DEF AfterConnect
  <2>5. CASE AfterReset(o)
    <3> DEFINE place == IF call[o].state = "answered" THEN "ready" ELSE "failed"
    <3>1. at' = [at EXCEPT ![o] = place] /\ place \in {"ready", "failed"} /\ Consume(o)
            /\ held' = held
      BY <2>5 DEF AfterReset, Goto
    <3> HIDE DEF place
    <3> QED
      BY <2>0, <3>1, CallAtConsumes
  <2>6. CASE Take(o)
    <3>1. Calls(o, "invoke", 0) /\ at' = [at EXCEPT ![o] = "calling"] /\ held' = held
      BY <2>6, CallKinds DEF Take, Goto
    <3> QED
      BY <2>0, <3>1, CallAtCalls DEF Method
  <2>7. CASE Use(o)
    <3>1. Calls(o, "use", held[o][2]) /\ held[o][2] \in Nat
            /\ at' = [at EXCEPT ![o] = "calling"] /\ held' = held
      BY <2>7, CallKinds DEF Use, Goto
    <3> QED
      BY <2>0, <3>1, CallAtCalls DEF Method
  <2>8. CASE AfterCall(o)
    <3>1. Consume(o) /\ (Goto(o, "ready") \/ Goto(o, "failed"))
      BY <2>8 DEF AfterCall
    <3>2. \A p \in Op \ {o} : held'[p] = held[p]
      BY <2>8 DEF AfterCall
    <3> QED
      BY <2>0, <3>1, <3>2, CallAtConsumes DEF Goto
  <2> QED
    BY <1>2, <2>1, <2>2, <2>3, <2>4, <2>5, <2>6, <2>7, <2>8 DEF OpStep
<1>3. ASSUME BridgeStep, UNCHANGED handleVars, NEW p \in Op PROVE CallAt(p)'
  <2>1. at'[p] = at[p] /\ held'[p] = held[p]
    BY <1>3 DEF handleVars
  <2>2. CASE call'[p] = call[p]
    BY <1>1, <2>1, <2>2
  <2>3. CASE call'[p] # call[p]
    <3>1. /\ call[p].state = "waiting" /\ call[p] # NoCall /\ call'[p] # NoCall
          /\ \/ call'[p].state = "rejected"
             \/ call'[p].state = "answered" /\ call'[p].method = call[p].method
      BY <1>3, <2>3, BridgeCalls
    <3> QED
      BY <2>1, <3>1 DEF CallAt
  <2> QED
    BY <2>2, <2>3
<1>4. CASE UNCHANGED vars
  BY <1>1, <1>4 DEF vars, bridgeVars, handleVars
<1> QED
  BY <1>2, <1>3, <1>4 DEF Next

-----------------------------------------------------------------------------
HandlesInv == BridgeOK /\ IdsInv /\ HelpersInOrder /\ \A o \in Op : CallAt(o)

LEMMA HandlesStart == ASSUME Init PROVE HandlesInv
<1> USE BridgeAssumption DEF Init, BridgeInit
<1>1. BridgeOK
  BY CallMade DEF BridgeOK, HelpersOK, CallsOK, PlacesOK, Object, NoObject
<1>2. IdsInv
  BY DEF IdsInv, Numbers, Matching, AnswersMatch, Waiting, NoCall
<1>3. HelpersInOrder
  BY DEF HelpersInOrder
<1>4. \A o \in Op : CallAt(o)
  BY DEF CallAt, NoCall
<1> QED
  BY <1>1, <1>2, <1>3, <1>4 DEF HandlesInv

LEMMA HandlesStep == ASSUME HandlesInv, [Next]_vars PROVE HandlesInv'
<1>1. StepKind
  BY StepKinds DEF HandlesInv
<1>2. BridgeOK'
  BY <1>1, TypesKept, PlacesKept DEF HandlesInv, BridgeOK
<1>3. IdsInv' /\ HelpersInOrder'
  BY <1>1, IdsKept, OrderKept DEF HandlesInv
<1>4. \A o \in Op : CallAt(o)'
  BY CallsKept DEF HandlesInv
<1> QED
  BY <1>2, <1>3, <1>4 DEF HandlesInv

\* The invariant that does not depend on how operations overlap.
THEOREM HandlesInvHolds == Spec => []HandlesInv
  BY HandlesStart, HandlesStep, PTL DEF Spec

\* A caller is given the answer to its own request, whatever is left in the pipes of
\* dead helpers, for any operations and any crashes, timeouts and restarts
\* (core/resolve-bridge.js, the ids of rpc).
THEOREM AnswersAreToTheirCalls == Spec => []AnswersMatch
<1>1. HandlesInv => AnswersMatch
  BY DEF HandlesInv, IdsInv
<1> QED
  BY <1>1, HandlesInvHolds, PTL

-----------------------------------------------------------------------------
\* The objects of a helper have the numbers it gave out.
NumbersGiven == \A h \in 1 .. Len(helpers) : Numbered(h)
NumberedAs(x, y) == x.registry \subseteq 1 .. x.next - 1 => y.registry \subseteq 1 .. y.next - 1

\* Answering a request gives at most the next number.
LEMMA HandledNumbers ==
  ASSUME NEW x \in Helper, NEW r \in Request, NEW result
  PROVE  NumberedAs(x, Handled(x, r, result))
<1> DEFINE y == Handled(x, r, result)
<1>0. x.registry \in SUBSET Nat /\ x.next \in Nat \ {0}
  BY HelperFields
<1>1. CASE r.method = "connect"
  <2>1. y = [x EXCEPT !.connected = result.connected]
    BY <1>1 DEF Handled
  <2>2. y.registry = x.registry /\ y.next = x.next
    BY <2>1 DEF Helper
  <2> QED  BY <2>2 DEF NumberedAs
<1>2. CASE r.method = "reset"
  <2>1. y = [x EXCEPT !.registry = {}]
    BY <1>2 DEF Handled
  <2>2. y.registry = {}
    BY <2>1 DEF Helper
  <2> QED  BY <2>2 DEF NumberedAs
<1>3. CASE r.method = "invoke" /\ x.connected
  <2> DEFINE s == x.registry \cup {x.next}
             n == x.next + 1
  <2>1. y = [x EXCEPT !.registry = s, !.next = n] /\ s \in SUBSET Nat /\ n \in Nat \ {0}
    BY <1>0, <1>3 DEF Handled
  <2> HIDE DEF s, n, y
  <2>2. y.registry = s /\ y.next = n
    <3>1. WithRegistry(x, s, n, y)
      BY <2>1 DEF WithRegistry
    <3> QED  BY <2>1, <3>1, RegisteredObjects
  <2>3. x.registry \subseteq 1 .. x.next - 1 => s \subseteq 1 .. n - 1
    BY <1>0 DEF s, n
  <2> QED  BY <2>2, <2>3 DEF NumberedAs, y
<1>4. CASE y = x
  BY <1>4 DEF NumberedAs
<1> QED  BY <1>1, <1>2, <1>3, <1>4 DEF Handled

\* A change of one helper that keeps its numbers keeps the numbers of all.
LEMMA OneNumbered ==
  ASSUME BridgeOK, NumbersGiven, NEW h \in 1 .. Len(helpers), NEW y, NumberedAs(helpers[h], y),
         helpers' = [helpers EXCEPT ![h] = y]
  PROVE  NumbersGiven'
<1>1. /\ helpers \in Seq(Helper) /\ Len(helpers') = Len(helpers)
      /\ \A g \in 1 .. Len(helpers) : helpers'[g] = IF g = h THEN y ELSE helpers[g]
  BY DEF BridgeOK, HelpersOK
<1> QED  BY <1>1 DEF NumbersGiven, Numbered, NumberedAs

LEMMA DeadNumbered ==
  ASSUME BridgeOK, NEW h \in 1 .. Len(helpers), NEW y \in Dead(h)
  PROVE  NumberedAs(helpers[h], y)
<1> DEFINE corpse == [NewHelper EXCEPT !.state = "dead", !.outbox = helpers[h].outbox]
<1>1. corpse.registry = {} /\ [corpse EXCEPT !.outbox = Append(@, TornLine)].registry = {}
  BY DEF NewHelper
<1>2. y = helpers[h] \/ y = corpse \/ y = [corpse EXCEPT !.outbox = Append(@, TornLine)]
  BY DEF Dead
<1> HIDE DEF corpse
<1> QED  BY <1>1, <1>2 DEF NumberedAs

LEMMA NumbersGivenStep ==
  ASSUME BridgeOK, NumbersGiven, [Next]_vars
  PROVE  NumbersGiven'
<1> USE DEF BridgeOK, HelpersOK
<1>1. ASSUME helpers' = helpers PROVE NumbersGiven'
  BY <1>1 DEF NumbersGiven, Numbered
<1>2. ASSUME NEW o \in Op, NEW m \in Method, NEW t \in Nat, Calls(o, m, t) PROVE NumbersGiven'
  <2>1. /\ helpers' \in Seq(Helper)
        /\ \A h \in 1 .. Len(helpers') :
             helpers'[h].registry = Before(h).registry /\ helpers'[h].next = Before(h).next
    BY <1>2 DEF Calls
  <2>2. NewHelper.registry = {}
    BY NewHelperFields
  <2> QED  BY <2>1, <2>2 DEF NumbersGiven, Numbered, Before
<1>3. ASSUME NEW o \in Op, OpStep(o) PROVE NumbersGiven'
  <2>1. CASE BeginOp(o) \/ EndOp(o)
    BY <1>1, <2>1 DEF BeginOp, EndOp, Leave, bridgeVars
  <2>2. CASE GetResolve(o)
    BY <1>1, <1>2, <2>2, CallKinds DEF GetResolve, bridgeVars, Method
  <2>3. CASE AfterConnect(o)
    BY <1>1, <1>2, <2>3, CallKinds DEF AfterConnect, Consume, Method
  <2>4. CASE AfterReset(o) \/ AfterCall(o)
    BY <1>1, <2>4 DEF AfterReset, AfterCall, Consume
  <2>5. CASE Take(o) \/ Use(o)
    BY <1>2, <2>5, CallKinds DEF Take, Use, Method
  <2> QED  BY <1>3, <2>1, <2>2, <2>3, <2>4, <2>5 DEF OpStep
<1>4. ASSUME NEW h \in DOMAIN helpers, Serve(h) PROVE NumbersGiven'
  <2> DEFINE x == helpers[h]
             r == Head(x.inbox)
  <2>1. h \in 1 .. Len(helpers) /\ x \in Helper /\ r \in Request
    BY <1>4, HelperFields DEF Serve
  <2>2. PICK result \in Answer(h, r) :
          LET line == [id |-> r.id, method |-> r.method, result |-> result]
              after == Handled(x, r, result)
          IN  helpers' = [helpers EXCEPT ![h] = [after EXCEPT !.inbox = Tail(@),
            !.outbox = Append(@, line)]]
    BY <1>4 DEF Serve
  <2> DEFINE l == [id |-> r.id, method |-> r.method, result |-> result]
             y == Handled(x, r, result)
             z == [y EXCEPT !.inbox = Tail(@), !.outbox = Append(@, l)]
  <2>3. y \in Helper /\ NumberedAs(x, y)
    BY <2>1, HandledFields, HandledNumbers
  <2>4. helpers' = [helpers EXCEPT ![h] = z]
    BY <2>2
  <2>5. z.registry = y.registry /\ z.next = y.next
    <3> HIDE DEF y, l
    <3> QED  BY <2>3 DEF Helper
  <2> HIDE DEF x, y, z
  <2>6. NumberedAs(x, z)
    BY <2>3, <2>5 DEF NumberedAs
  <2> QED  BY <2>1, <2>4, <2>6, OneNumbered DEF x
<1>5. ASSUME NEW h \in DOMAIN helpers, Deliver(h) \/ Exit(h) PROVE NumbersGiven'
  <2> DEFINE x == helpers[h]
             y == [x EXCEPT !.outbox = Tail(@)]
             z == [x EXCEPT !.state = "gone"]
  <2>1. h \in 1 .. Len(helpers) /\ x \in Helper
    OBVIOUS
  <2>2. /\ y.registry = x.registry /\ y.next = x.next
        /\ z.registry = x.registry /\ z.next = x.next
    BY <2>1 DEF Helper
  <2>3. helpers' = [helpers EXCEPT ![h] = y] \/ helpers' = [helpers EXCEPT ![h] = z]
    BY <1>5 DEF Deliver, Exit
  <2> HIDE DEF x, y, z
  <2>4. NumberedAs(x, y) /\ NumberedAs(x, z)
    BY <2>2 DEF NumberedAs
  <2> QED  BY <2>1, <2>3, <2>4, OneNumbered DEF x
<1>6. ASSUME NEW h \in 1 .. Len(helpers), NEW y \in Dead(h), helpers' = [helpers EXCEPT ![h] = y]
      PROVE  NumbersGiven'
  BY <1>6, DeadNumbered, OneNumbered
<1>7. ASSUME NEW h \in DOMAIN helpers, Crash(h) PROVE NumbersGiven'
  <2>1. h \in 1 .. Len(helpers)
    OBVIOUS
  <2>2. PICK y \in Dead(h) : helpers' = [helpers EXCEPT ![h] = y]
    BY <1>7 DEF Crash
  <2> QED  BY <1>6, <2>1, <2>2
<1>8. ASSUME NEW o \in Op, Timeout(o) PROVE NumbersGiven'
  BY <1>1, <1>6, <1>8 DEF Timeout
<1>9. CASE Stop
  <2>1. child \in 1 .. Len(helpers)
    BY <1>9 DEF Stop
  <2>2. PICK y \in Dead(child) : helpers' = [helpers EXCEPT ![child] = y]
    BY <1>9 DEF Stop
  <2> QED  BY <1>6, <2>1, <2>2
<1> QED
  BY <1>1, <1>3, <1>4, <1>5, <1>7, <1>8, <1>9 DEF Next, BridgeStep, vars, bridgeVars

\* The depth counts the bracketed operations in flight, and the numbers of
\* operations follow one another.
UnderBrackets == {o \in Bracketed : at[o] # "idle"}
DepthCounts == IsFiniteSet(UnderBrackets) /\ opDepth = Cardinality(UnderBrackets)
CountersOK ==
  /\ begun \in 0 .. MaxOps /\ opSeq \in 0 .. begun /\ resetSeq \in 0 .. opSeq
  /\ faults \in 0 .. MaxFaults
SwitchesOK == torn \in BOOLEAN /\ offline \in BOOLEAN

LEMMA DepthStep ==
  ASSUME BridgeOK, DepthCounts, [Next]_vars
  PROVE  DepthCounts'
<1> USE DEF BridgeOK, PlacesOK
<1>1. ASSUME opDepth' = opDepth, NEW o, NEW place, place # "idle", at' = [at EXCEPT ![o] = place],
             at[o] # "idle"
      PROVE  DepthCounts'
  <2>1. UnderBrackets' = UnderBrackets
    BY <1>1, HandlesAssumption DEF UnderBrackets
  <2> QED  BY <1>1, <2>1 DEF DepthCounts
<1>2. ASSUME opDepth' = opDepth, at' = at PROVE DepthCounts'
  BY <1>2 DEF DepthCounts, UnderBrackets
<1>3. ASSUME NEW o \in Op, BeginOp(o) PROVE DepthCounts'
  <2>1. at[o] = "idle" /\ at' = [at EXCEPT ![o] = "begun"]
        /\ opDepth' = IF o \in Bracketed THEN opDepth + 1 ELSE opDepth
    BY <1>3 DEF BeginOp, Goto
  <2>2. CASE o \in Bracketed
    <3>1. UnderBrackets' = UnderBrackets \cup {o} /\ o \notin UnderBrackets
      BY <2>1, <2>2, HandlesAssumption DEF UnderBrackets
    <3> QED  BY <2>1, <2>2, <3>1, FS_AddElement DEF DepthCounts
  <2>3. CASE o \notin Bracketed
    <3>1. UnderBrackets' = UnderBrackets
      BY <2>1, <2>3, HandlesAssumption DEF UnderBrackets
    <3> QED  BY <2>1, <2>3, <3>1 DEF DepthCounts
  <2> QED  BY <2>2, <2>3
<1>4. ASSUME NEW o \in Op, EndOp(o) PROVE DepthCounts'
  <2>1. at[o] # "idle" /\ at' = [at EXCEPT ![o] = "idle"]
        /\ opDepth' = IF o \in Bracketed /\ opDepth > 0 THEN opDepth - 1 ELSE opDepth
    BY <1>4 DEF EndOp, Leave, Goto
  <2>2. CASE o \in Bracketed
    <3>1. UnderBrackets' = UnderBrackets \ {o} /\ o \in UnderBrackets
      BY <2>1, <2>2, HandlesAssumption DEF UnderBrackets
    <3>2. opDepth \in Nat /\ opDepth # 0
      BY <3>1, FS_CardinalityType, FS_EmptySet DEF DepthCounts
    <3> QED  BY <2>1, <2>2, <3>1, <3>2, FS_RemoveElement DEF DepthCounts
  <2>3. CASE o \notin Bracketed
    <3>1. UnderBrackets' = UnderBrackets
      BY <2>1, <2>3, HandlesAssumption DEF UnderBrackets
    <3> QED  BY <2>1, <2>3, <3>1 DEF DepthCounts
  <2> QED  BY <2>2, <2>3
<1>5. ASSUME NEW o \in Op, GetResolve(o) \/ AfterConnect(o) \/ AfterReset(o) \/ Take(o) \/ Use(o)
                            \/ AfterCall(o)
      PROVE  DepthCounts'
  <2>1. opDepth' = opDepth /\ at[o] # "idle"
    BY <1>5 DEF GetResolve, AfterConnect, AfterReset, Take, Use, AfterCall
  <2>2. \E place \in {"connecting", "failed", "clearing", "resetting", "ready", "calling"} :
          at' = [at EXCEPT ![o] = place]
    BY <1>5 DEF GetResolve, AfterConnect, AfterReset, Take, Use, AfterCall, Goto
  <2> QED  BY <1>1, <2>1, <2>2
<1>6. ASSUME UNCHANGED handleVars PROVE DepthCounts'
  BY <1>2, <1>6 DEF handleVars
<1> QED  BY <1>3, <1>4, <1>5, <1>6 DEF Next, OpStep, vars

LEMMA CountersStep ==
  ASSUME CountersOK, [Next]_vars
  PROVE  CountersOK'
<1> USE HandlesAssumption, BridgeAssumption DEF CountersOK
<1>1. ASSUME NEW o \in Op, BeginOp(o) PROVE CountersOK'
  <2>1. begun < MaxOps /\ begun' = begun + 1 /\ resetSeq' = resetSeq /\ faults' = faults
        /\ (opSeq' = opSeq + 1 \/ opSeq' = opSeq)
    BY <1>1 DEF BeginOp, bridgeVars
  <2> QED  BY <2>1
<1>2. ASSUME NEW o \in Op, OpStep(o), ~ BeginOp(o) PROVE CountersOK'
  <2>1. begun' = begun /\ opSeq' = opSeq /\ faults' = faults
    BY <1>2 DEF OpStep, EndOp, Leave, GetResolve, AfterConnect, AfterReset, Take, Use, AfterCall,
                Consume, Rpc, bridgeVars
  <2>2. resetSeq' = resetSeq \/ resetSeq' = opSeq
    BY <1>2 DEF OpStep, EndOp, Leave, GetResolve, AfterConnect, AfterReset, Take, Use, AfterCall
  <2> QED  BY <2>1, <2>2
<1>3. ASSUME BridgeStep, UNCHANGED handleVars PROVE CountersOK'
  <2>1. begun' = begun /\ opSeq' = opSeq /\ resetSeq' = resetSeq
    BY <1>3 DEF handleVars
  <2>2. faults' = faults \/ (faults < MaxFaults /\ faults' = faults + 1)
    BY <1>3 DEF BridgeStep, Serve, Deliver, Crash, Exit, Timeout, Stop
  <2> QED  BY <2>1, <2>2
<1>4. CASE UNCHANGED vars
  BY <1>4 DEF vars, bridgeVars, handleVars
<1> QED  BY <1>1, <1>2, <1>3, <1>4 DEF Next

LEMMA SwitchesStep ==
  ASSUME SwitchesOK, [Next]_vars
  PROVE  SwitchesOK'
<1> USE DEF SwitchesOK
<1>1. ASSUME NEW o \in Op, OpStep(o) PROVE SwitchesOK'
  <2>1. torn' = torn
    BY <1>1 DEF OpStep, BeginOp, EndOp, Leave, GetResolve, AfterConnect, AfterReset, Take, Use,
                AfterCall, Consume, Rpc, bridgeVars
  <2>2. offline' \in BOOLEAN
    <3>1. CASE AfterConnect(o)
      BY <3>1 DEF AfterConnect
    <3>2. CASE ~ AfterConnect(o)
      BY <1>1, <3>2 DEF OpStep, BeginOp, EndOp, Leave, GetResolve, AfterReset, Take, Use, AfterCall
    <3> QED  BY <3>1, <3>2
  <2> QED  BY <2>1, <2>2
<1>2. ASSUME BridgeStep, UNCHANGED handleVars PROVE SwitchesOK'
  <2>1. torn' \in BOOLEAN
    BY <1>2 DEF BridgeStep, Serve, Deliver, Crash, Exit, Timeout, Stop
  <2> QED  BY <1>2, <2>1 DEF handleVars
<1>3. CASE UNCHANGED vars
  BY <1>3 DEF vars, bridgeVars, handleVars
<1> QED  BY <1>1, <1>2, <1>3 DEF Next

HandleTypesInv == HandlesInv /\ NumbersGiven /\ DepthCounts /\ CountersOK /\ SwitchesOK

LEMMA HandleTypesStart == ASSUME Init PROVE HandleTypesInv
<1> USE HandlesAssumption, BridgeAssumption DEF Init, BridgeInit
<1>1. NumbersGiven
  BY DEF NumbersGiven
<1>2. UnderBrackets = {}
  BY DEF UnderBrackets
<1>3. DepthCounts
  BY <1>2, FS_EmptySet DEF DepthCounts
<1>4. CountersOK
  BY DEF CountersOK
<1>5. SwitchesOK
  BY DEF SwitchesOK
<1> QED  BY <1>1, <1>3, <1>4, <1>5, HandlesStart DEF HandleTypesInv

LEMMA HandleTypesStep == ASSUME HandleTypesInv, [Next]_vars PROVE HandleTypesInv'
BY HandlesStep, NumbersGivenStep, DepthStep, CountersStep, SwitchesStep
   DEF HandleTypesInv, HandlesInv

LEMMA HandleTypesInRange == ASSUME HandleTypesInv PROVE TypeOK
<1>1. \A h \in DOMAIN helpers : HelperOK(helpers[h])
  <2>1. DOMAIN helpers = 1 .. Len(helpers) /\ \A h \in DOMAIN helpers : helpers[h] \in Helper
    BY DEF HandleTypesInv, HandlesInv, BridgeOK, HelpersOK
  <2> SUFFICES ASSUME NEW h \in DOMAIN helpers PROVE HelperOK(helpers[h])
    OBVIOUS
  <2> DEFINE x == helpers[h]
  <2>2. x \in Helper /\ x.registry \subseteq 1 .. x.next - 1
    BY <2>1 DEF HandleTypesInv, NumbersGiven, Numbered
  <2> HIDE DEF x
  <2>3. /\ x.state \in {"running", "dead", "gone"} /\ x.inbox \in Seq(Request)
        /\ x.outbox \in Seq(Line) /\ x.next \in Nat \ {0}
    BY <2>2, HelperFields
  <2>4. x.connected \in BOOLEAN
    BY <2>2 DEF Helper
  <2> QED  BY <2>2, <2>3, <2>4 DEF HelperOK, x
<1>2. \A o \in Op : at[o] \in {"idle", "begun", "ready", "failed"} <=> call[o] = NoCall
  BY DEF HandleTypesInv, HandlesInv, CallAt
<1>3. /\ child \in 0 .. Len(helpers) /\ calls \in 0 .. MaxCalls /\ held \in [Op -> Object]
      /\ torn \in BOOLEAN /\ offline \in BOOLEAN
  BY DEF HandleTypesInv, HandlesInv, BridgeOK, HelpersOK, CallsOK, PlacesOK, SwitchesOK
<1>4. opDepth = Cardinality({o \in Bracketed : at[o] # "idle"})
  BY DEF HandleTypesInv, DepthCounts, UnderBrackets
<1>5. /\ faults \in 0 .. MaxFaults
      /\ resetSeq <= opSeq /\ opSeq <= begun /\ begun <= MaxOps
  BY HandlesAssumption DEF HandleTypesInv, CountersOK
<1> QED  BY <1>1, <1>2, <1>3, <1>4, <1>5 DEF TypeOK

\* Every variable of the bridge and of the operations stays in its range, the depth
\* is the number of bracketed operations in flight whatever fails, and the registry
\* was emptied for no operation that has not begun (core/resolve-proxy.js,
\* beginResolveOp and endResolveOp).
THEOREM HandleTypes == Spec => []TypeOK
  BY HandleTypesStart, HandleTypesStep, HandleTypesInRange, PTL DEF Spec

-----------------------------------------------------------------------------
\* A call that is not a reset keeps a safe object safe ...
LEMMA SafeCalls ==
  ASSUME BridgeOK, NEW o \in Op, NEW m \in Method, NEW t \in Nat, Calls(o, m, t), m # "reset",
         NEW x \in Object, Safe(x)
  PROVE Safe(x)'
<1> DEFINE h == x[1]
<1>1. h \in 1 .. Len(helpers) /\ h \in 1 .. Len(helpers') /\ Before(h) = helpers[h]
  BY DEF Safe, Calls, Before, BridgeOK, HelpersOK
<1>2. helpers'[h].state = helpers[h].state /\ helpers'[h].registry = helpers[h].registry
  BY <1>1 DEF Calls
<1>3. In(h)' \subseteq In(h) \cup {RequestOf(m, t)} /\ RequestOf(m, t).method = m
  BY <1>1, CallsViews DEF RequestOf
<1> QED
  BY <1>1, <1>2, <1>3 DEF Safe, NoReset

\* ... so does a helper that serves: none of its requests is a reset ...
LEMMA SafeServes ==
  ASSUME BridgeOK, NEW g \in 1 .. Len(helpers), NEW r \in Request, NEW l \in Line, Serves(g, r,
           l),
         NEW x \in Object, Safe(x)
  PROVE Safe(x)'
<1> DEFINE h == x[1]
<1>1. h \in 1 .. Len(helpers) /\ Len(helpers') = Len(helpers) /\ In(h)' \subseteq In(h)
        /\ r \in In(g)
  BY ServesViews DEF Safe, Serves
<1>2. CASE h # g
  BY <1>1, <1>2 DEF Safe, NoReset, Serves
<1>3. CASE h = g
  <2>1. helpers[h].state = "running"
    BY <1>3 DEF Serves
  <2>2. x[2] \in helpers[h].registry /\ NoReset(h)
    BY <2>1 DEF Safe
  <2>3. r.method # "reset"
    BY <1>1, <1>3, <2>2 DEF NoReset
  <2>4. x[2] \in helpers'[h].registry
    BY <1>3, <2>2, <2>3 DEF Serves
  <2> QED
    BY <1>1, <2>2, <2>4 DEF Safe, NoReset
<1> QED
  BY <1>2, <1>3

\* ... and a step that only loses.
LEMMA SafeSettles ==
  ASSUME BridgeOK, SettlesOnly, NEW x \in Object, Safe(x)
  PROVE Safe(x)'
<1> DEFINE h == x[1]
<1>1. h \in 1 .. Len(helpers) /\ Len(helpers') = Len(helpers) /\ In(h)' \subseteq In(h)
  BY QuietViews DEF Safe, SettlesOnly, Quiet
<1>2. helpers'[h].state = "running" => helpers[h].state = "running"
        /\ helpers'[h].registry = helpers[h].registry
  BY <1>1 DEF SettlesOnly, Quiet, Loses
<1> QED
  BY <1>1, <1>2 DEF Safe, NoReset

\* What an operation holds is an object.
LEMMA HeldObjects ==
  ASSUME BridgeOK, NEW o \in Op PROVE held[o] \in Object
BY DEF BridgeOK, PlacesOK

\* An operation that neither holds an object nor awaits one.
Claimless(o) ==
  held[o] = NoObject /\ ~ (call[o].state \in {"waiting", "answered"} /\ call[o].method = "invoke")

\* Who holds nothing has nothing to lose.
LEMMA ClaimlessSafe ==
  ASSUME NEW o \in Op, Claimless(o) PROVE SafeFor(o)
BY DEF Claimless, SafeFor, Invoking, Waiting

\* A call of another operation, or one that takes no object.
LEMMA SafeForCalls ==
  ASSUME BridgeOK, NEW o \in Op, NEW m \in Method, NEW t \in Nat, Calls(o, m, t), m # "reset",
         NEW p \in Op, SafeFor(p), held'[p] = held[p], call'[p] = call[p] \/ (p = o
           /\ m # "invoke")
  PROVE SafeFor(p)'
<1>1. held'[p] # NoObject => Safe(held[p])'
  BY HeldObjects, SafeCalls DEF SafeFor
<1>2. CASE call'[p] = call[p]
  <2>1. ASSUME call[p].state = "answered", call[p].method = "invoke", NEW x \in Object,
                 Gives(call[p].result, x)
        PROVE Safe(x)'
    BY <2>1, SafeCalls DEF SafeFor
  <2>2. ASSUME Invoking(p), NEW h \in 1 .. Len(helpers')
        PROVE /\ \A e \in In(h)' : e.method = "reset" => e.id < call[p].id
              /\ \A e \in Out(h)' : e.id = call[p].id => \A x \in Object : Gives(e.result, x)
                   => Safe(x)'
    <3>1. /\ In(h)' \subseteq (IF h \in 1 .. Len(helpers) THEN In(h) ELSE {}) \cup {RequestOf(m,
               t)}
          /\ Out(h)' \subseteq (IF h \in 1 .. Len(helpers) THEN Out(h) ELSE {})
          /\ RequestOf(m, t).method = m
      BY CallsViews DEF RequestOf
    <3>2. ASSUME NEW e \in In(h)', e.method = "reset" PROVE e.id < call[p].id
      BY <2>2, <3>1, <3>2 DEF SafeFor
    <3>3. ASSUME NEW e \in Out(h)', e.id = call[p].id, NEW x \in Object, Gives(e.result, x)
                   PROVE Safe(x)'
      BY <2>2, <3>1, <3>3, SafeCalls DEF SafeFor
    <3> QED
      BY <3>2, <3>3
  <2> QED
    BY <1>1, <1>2, <2>1, <2>2 DEF SafeFor, Invoking, Waiting, Gives
<1>3. CASE p = o /\ m # "invoke"
  <2>1. call'[p] = [state |-> "waiting", id |-> calls + 1, method |-> m, target |-> t]
    BY <1>3 DEF Calls, BridgeOK, CallsOK
  <2> QED
    BY <1>1, <1>3, <2>1 DEF SafeFor, Invoking, Waiting
<1> QED
  BY <1>2, <1>3

\* The call that takes an object: no reset has a later number.
LEMMA SafeForInvokes ==
  ASSUME BridgeOK, IdsInv, NEW o \in Op, Calls(o, "invoke", 0), SafeFor(o), held'[o] = held[o]
  PROVE SafeFor(o)'
<1>0. "invoke" \in Method /\ "invoke" # "reset" /\ 0 \in Nat
  BY DEF Method
<1>1. held'[o] # NoObject => Safe(held[o])'
  BY <1>0, HeldObjects, SafeCalls DEF SafeFor
<1>2. call'[o] = [state |-> "waiting", id |-> calls + 1, method |-> "invoke", target |-> 0]
        /\ calls \in Nat
  BY BridgeAssumption DEF Calls, BridgeOK, CallsOK
<1>3. ASSUME NEW h \in 1 .. Len(helpers')
      PROVE /\ \A e \in In(h)' : e.method = "reset" => e.id < calls + 1
            /\ \A e \in Out(h)' : e.id # calls + 1
  <2>1. /\ In(h)' \subseteq (IF h \in 1 .. Len(helpers) THEN In(h) ELSE {})
             \cup {RequestOf("invoke", 0)}
        /\ Out(h)' \subseteq (IF h \in 1 .. Len(helpers) THEN Out(h) ELSE {})
        /\ RequestOf("invoke", 0).method = "invoke"
    BY <1>0, CallsViews DEF RequestOf
  <2>2. \A e \in In(h) \cup Out(h) : h \in 1 .. Len(helpers) => e.id \in Nat /\ e.id <= calls
    BY LineFields, RequestFields, HelperFields, ItemsOf
       DEF In, Out, BridgeOK, HelpersOK, IdsInv, Numbers
  <2> QED
    BY <1>2, <2>1, <2>2
<1> QED
  BY <1>1, <1>2, <1>3 DEF SafeFor, Invoking, Waiting

\* What is left in a pipe after a request was served has later numbers.
LEMMA LaterLeft ==
  ASSUME BridgeOK, HelpersInOrder, NEW h \in 1 .. Len(helpers), NEW r \in Request, NEW l \in Line,
           Serves(h, r, l),
         NEW e \in In(h)'
  PROVE e.id > r.id
<1> DEFINE s == helpers[h].inbox
<1>1. s \in Seq(Request) /\ s # <<>> /\ r = s[1] /\ helpers'[h].inbox = Tail(s)
  BY HelperFields DEF Serves, BridgeOK, HelpersOK
<1>2. \A a, b \in 1 .. Len(s) : a < b => s[a].id < s[b].id
  BY DEF HelpersInOrder
<1>3. PICK k \in 1 .. Len(helpers'[h].inbox) : e = helpers'[h].inbox[k]
  BY DEF In, Items
<1> HIDE DEF s
<1>4. Len(Tail(s)) = Len(s) - 1 /\ Len(s) \in Nat /\ \A a \in 1 .. Len(s) - 1 : Tail(s)[a]
        = s[a + 1]
  BY <1>1
<1>5. k + 1 \in 1 .. Len(s) /\ 1 \in 1 .. Len(s) /\ 1 < k + 1 /\ e = s[k + 1]
  BY <1>1, <1>3, <1>4
<1>6. s[1].id < s[k + 1].id
  BY <1>2, <1>5
<1>7. s[1].id \in Nat /\ s[k + 1].id \in Nat
  BY <1>1, <1>5, RequestFields, BridgeAssumption
<1> QED
  BY <1>1, <1>5, <1>6, <1>7

\* The object that a helper makes is safe: what was to empty the registry was served
\* before.
LEMMA SafeForServes ==
  ASSUME BridgeOK, IdsInv, HelpersInOrder, NEW h \in 1 .. Len(helpers), NEW r \in Request,
           NEW l \in Line, Serves(h, r, l),
         NEW p \in Op, SafeFor(p), held'[p] = held[p]
  PROVE SafeFor(p)'
<1>0. call' = call /\ Len(helpers') = Len(helpers)
  BY DEF Serves
<1>1. held'[p] # NoObject => Safe(held[p])'
  BY HeldObjects, SafeServes DEF SafeFor
<1>2. ASSUME call[p].state = "answered", call[p].method = "invoke", NEW x \in Object,
               Gives(call[p].result, x)
      PROVE Safe(x)'
  BY <1>2, SafeServes DEF SafeFor
<1>3. ASSUME Invoking(p), NEW g \in 1 .. Len(helpers)
      PROVE /\ \A e \in In(g)' : e.method = "reset" => e.id < call[p].id
            /\ \A e \in Out(g)' : e.id = call[p].id => \A x \in Object : Gives(e.result, x)
                 => Safe(x)'
  <2>1. /\ r \in In(h) /\ In(g)' \subseteq In(g) /\ In(h)' \subseteq In(h)
        /\ Out(g)' \subseteq Out(g) \cup {l}
        /\ g # h => Out(g)' = Out(g)
    BY ServesViews
  <2>2. ASSUME NEW e \in In(g)', e.method = "reset" PROVE e.id < call[p].id
    BY <1>3, <2>1, <2>2 DEF SafeFor
  <2>3. ASSUME NEW e \in Out(g), e.id = call[p].id, NEW x \in Object, Gives(e.result, x)
                 PROVE Safe(x)'
    BY <1>3, <2>3, SafeServes DEF SafeFor
  <2>4. ASSUME l.id = call[p].id, NEW x \in Object, Gives(l.result, x) PROVE Safe(x)'
    <3>1. r.id = call[p].id /\ r.method = "invoke"
      BY <1>3, <2>1, <2>4 DEF Serves, IdsInv, Matching, Invoking
    <3>2. CASE l.result = [object |-> <<h, helpers[h].next>>]
              /\ helpers'[h].registry = helpers[h].registry \cup {helpers[h].next}
      <4>1. x = <<h, helpers[h].next>>
        BY <2>4, <3>2 DEF Gives
      <4>2. ASSUME NEW e \in In(h)' PROVE e.method # "reset"
        <5>1. e.id > r.id /\ e \in In(h)
          BY <2>1, LaterLeft
        <5>2. e.method = "reset" => e.id < call[p].id
          BY <1>3, <5>1 DEF SafeFor
        <5>3. e.id \in Nat /\ r.id \in Nat
          BY <5>1, RequestFields, HelperFields, ItemsOf, BridgeAssumption
             DEF In, BridgeOK, HelpersOK
        <5> QED
          BY <3>1, <5>1, <5>2, <5>3
      <4> QED
        BY <1>0, <3>2, <4>1, <4>2 DEF Safe, NoReset
    <3>3. CASE l.result = [error |-> TRUE]
      BY <2>4, <3>3 DEF Gives
    <3> QED
      BY <3>1, <3>2, <3>3 DEF Serves
  <2>5. ASSUME NEW e \in Out(g)', e.id = call[p].id, NEW x \in Object, Gives(e.result, x)
                 PROVE Safe(x)'
    BY <2>1, <2>3, <2>4, <2>5
  <2> QED
    BY <2>2, <2>5
<1> QED
  BY <1>0, <1>1, <1>2, <1>3 DEF SafeFor, Invoking, Waiting, Gives

\* A call is settled or taken up: the object comes out of a safe line or answer.
LEMMA SafeForSettles ==
  ASSUME BridgeOK, SettlesOnly, NEW p \in Op, SafeFor(p),
         \/ held'[p] = held[p] \/ held'[p] = NoObject
         \/ /\ call[p].state = "answered" /\ call[p].method = "invoke"
            /\ held'[p] \in Object /\ Gives(call[p].result, held'[p])
  PROVE SafeFor(p)'
<1>1. ASSUME held'[p] # NoObject PROVE Safe(held[p])'
  <2>1. held'[p] \in Object /\ Safe(held'[p])
    BY <1>1, HeldObjects DEF SafeFor
  <2>2. PICK x \in Object : x = held'[p]
    BY <2>1
  <2>3. Safe(x)'
    BY <2>1, <2>2, SafeSettles
  <2> QED
    BY <2>2, <2>3 DEF Safe, NoReset, In
<1>2. ASSUME call'[p] = call[p] PROVE SafeFor(p)'
  <2>1. ASSUME call[p].state = "answered", call[p].method = "invoke", NEW x \in Object,
                 Gives(call[p].result, x)
        PROVE Safe(x)'
    BY <2>1, SafeSettles DEF SafeFor
  <2>2. ASSUME Invoking(p), NEW g \in 1 .. Len(helpers)
        PROVE /\ \A e \in In(g)' : e.method = "reset" => e.id < call[p].id
              /\ \A e \in Out(g)' : e.id = call[p].id => \A x \in Object : Gives(e.result, x)
                   => Safe(x)'
    <3>1. In(g)' \subseteq In(g) /\ Out(g)' \subseteq Out(g) \cup {TornLine}
      BY QuietViews DEF SettlesOnly
    <3>2. TornLine.id # call[p].id
      BY <2>2, LineFields, CallFields DEF BridgeOK, CallsOK, Invoking, Waiting
    <3>3. ASSUME NEW e \in In(g)', e.method = "reset" PROVE e.id < call[p].id
      BY <2>2, <3>1, <3>3 DEF SafeFor
    <3>4. ASSUME NEW e \in Out(g)', e.id = call[p].id, NEW x \in Object, Gives(e.result, x)
                   PROVE Safe(x)'
      BY <2>2, <3>1, <3>2, <3>4, SafeSettles DEF SafeFor
    <3> QED
      BY <3>3, <3>4
  <2>3. Len(helpers') = Len(helpers)
    BY DEF SettlesOnly, Quiet
  <2> QED
    BY <1>1, <1>2, <2>1, <2>2, <2>3 DEF SafeFor, Invoking, Waiting, Gives
<1>3. ASSUME call'[p] = NoCall PROVE SafeFor(p)'
  BY <1>1, <1>3 DEF SafeFor, Invoking, Waiting, NoCall
<1>4. ASSUME Waiting(p), Settles(p) PROVE SafeFor(p)'
  <2>1. ASSUME call'[p].state = "answered", call'[p].method = "invoke", NEW x \in Object,
                 Gives(call'[p].result, x)
        PROVE Safe(x)'
    <3>0. call'[p] # [state |-> "rejected"]
      BY <2>1
    <3>1. PICK h \in 1 .. Len(helpers) : \E line \in Out(h) :
            /\ line \in Line /\ line.id = call[p].id
            /\ call'[p] = [state |-> "answered", method |-> call[p].method, to |-> line.method,
                 result |-> line.result]
      BY <1>4, <3>0 DEF Settles
    <3>2. PICK line \in Out(h) :
            /\ line \in Line /\ line.id = call[p].id
            /\ call'[p] = [state |-> "answered", method |-> call[p].method, to |-> line.method,
                 result |-> line.result]
      BY <3>1
    <3>3. Invoking(p) /\ Gives(line.result, x)
      BY <1>4, <2>1, <3>2 DEF Invoking
    <3>4. Safe(x)
      BY <3>2, <3>3 DEF SafeFor
    <3> QED
      BY <3>4, SafeSettles
  <2>2. call'[p].state \in {"answered", "rejected"}
    BY <1>4, SettledCalls
  <2> QED
    BY <1>1, <2>1, <2>2 DEF SafeFor, Invoking, Waiting, Gives
<1> QED
  BY <1>2, <1>3, <1>4 DEF SettlesOnly, Ends

-----------------------------------------------------------------------------
\* One bracketed operation at a time: the depth is 1 while it is in flight.
HandlesContext == HandlesInv /\ BracketInv /\ OneInFlight /\ OneInFlight'

\* Every step keeps the depth and the sequence of the bracket.
LEMMA BracketKept ==
  ASSUME HandlesContext, [Next]_vars PROVE BracketInv'
<1> USE DEF HandlesContext, HandlesInv, BridgeOK, PlacesOK, BracketInv
<1> DEFINE Ready(o) == at[o] \in {"ready", "calling"} \/ held[o] # NoObject
           Fits(o) == at[o] # "clearing" /\ (Ready(o) => resetSeq = opSeq)
<1>1. ASSUME NEW o \in Op, OpStep(o) PROVE BracketInv'
  <2>0. ASSUME opDepth' = opDepth, opSeq' = opSeq, at[o] # "idle", at'[o] # "idle",
               resetSeq' = resetSeq \/ resetSeq' = opSeq,
               \A p \in Op \ {o} : at'[p] = at[p] /\ held'[p] = held[p],
               o \in Bracketed => Fits(o)'
        PROVE BracketInv'
    <3>1. \A p \in Bracketed : Fits(p)'
      BY <2>0, HandlesAssumption
    <3>2. (\E p \in Bracketed : at'[p] # "idle") <=> \E p \in Bracketed : at[p] # "idle"
      BY <2>0, HandlesAssumption
    <3> QED
      BY <2>0, <3>1, <3>2
  <2>9. o \in Bracketed /\ at[o] # "idle" => opDepth = 1
    OBVIOUS
  <2>1. CASE BeginOp(o)
    <3>1. /\ at[o] = "idle" /\ at' = [at EXCEPT ![o] = "begun"] /\ held' = held
               /\ resetSeq' = resetSeq
          /\ held[o] = NoObject
      BY <2>1 DEF BeginOp, Goto, CallAt
    <3>2. CASE o \in Bracketed
      <4>1. \A p \in Bracketed \ {o} : at'[p] = "idle" /\ at[p] = "idle"
        BY <3>1, <3>2, HandlesAssumption DEF OneInFlight
      <4>2. opDepth = 0 /\ opDepth' = 1
        BY <2>1, <3>1, <3>2, <4>1 DEF BeginOp
      <4>3. \A p \in Bracketed : held'[p] = NoObject /\ at'[p] \in {"idle", "begun"}
        BY <3>1, <4>1, HandlesAssumption DEF CallAt
      <4> QED
        BY <3>1, <3>2, <4>2, <4>3, HandlesAssumption
    <3>3. CASE o \notin Bracketed
      <4>1. opDepth' = opDepth /\ opSeq' = opSeq /\ \A p \in Bracketed : at'[p] = at[p]
        BY <2>1, <3>1, <3>3, HandlesAssumption DEF BeginOp
      <4> QED
        BY <3>1, <4>1
    <3> QED
      BY <3>2, <3>3
  <2>2. CASE EndOp(o)
    <3>1. /\ at[o] # "idle" /\ at' = [at EXCEPT ![o] = "idle"]
               /\ held' = [held EXCEPT ![o] = NoObject]
          /\ resetSeq' = resetSeq /\ opSeq' = opSeq
      BY <2>2 DEF EndOp, Leave, Goto
    <3>2. \A p \in Bracketed : Fits(p)'
      BY <3>1, HandlesAssumption
    <3>3. CASE o \in Bracketed
      <4>1. opDepth' = 0 /\ \A p \in Bracketed : at'[p] = "idle"
        BY <2>2, <2>9, <3>1, <3>3, HandlesAssumption DEF EndOp, OneInFlight
      <4> QED
        BY <3>2, <4>1
    <3>4. CASE o \notin Bracketed
      <4>1. opDepth' = opDepth /\ \A p \in Bracketed : at'[p] = at[p]
        BY <2>2, <3>1, <3>4, HandlesAssumption DEF EndOp
      <4> QED
        BY <3>2, <4>1
    <3> QED
      BY <3>3, <3>4
  <2>3. CASE GetResolve(o)
    BY <2>0, <2>3 DEF GetResolve, Goto
  <2>4. CASE AfterConnect(o)
    <3>1. at[o] = "connecting" /\ held' = held /\ opDepth' = opDepth /\ opSeq' = opSeq
            /\ resetSeq' = resetSeq
          /\ \/ at' = [at EXCEPT ![o] = "failed"]
             \/ at' = [at EXCEPT ![o] = IF opDepth = 0 THEN "clearing" ELSE "resetting"]
             \/ at' = [at EXCEPT ![o] = "ready"] /\ ~ MustReset
      BY <2>4 DEF AfterConnect, Goto
    <3>2. o \in Bracketed => Fits(o)'
      BY <2>9, <3>1 DEF MustReset
    <3> QED
      BY <2>0, <3>1, <3>2
  <2>5. CASE AfterReset(o)
    <3>1. /\ at[o] \in {"clearing", "resetting"} /\ held' = held /\ opDepth' = opDepth
               /\ opSeq' = opSeq
          /\ \/ at' = [at EXCEPT ![o] = "failed"] /\ resetSeq' = resetSeq
             \/ at' = [at EXCEPT ![o] = "ready"] /\ resetSeq' = IF at[o]
                  = "resetting" THEN opSeq ELSE resetSeq
      BY <2>5 DEF AfterReset, Goto
    <3> QED
      BY <2>0, <3>1
  <2>6. CASE Take(o)
    BY <2>0, <2>6 DEF Take, Goto
  <2>7. CASE Use(o)
    BY <2>0, <2>7 DEF Use, Goto
  <2>8. CASE AfterCall(o)
    <3>1. /\ at[o] = "calling" /\ opDepth' = opDepth /\ opSeq' = opSeq /\ resetSeq' = resetSeq
          /\ at' = [at EXCEPT ![o] = "ready"] \/ at' = [at EXCEPT ![o] = "failed"]
          /\ \A p \in Op \ {o} : held'[p] = held[p]
      BY <2>8 DEF AfterCall, Goto
    <3>2. o \in Bracketed => Fits(o)'
      BY <3>1
    <3> QED
      BY <2>0, <3>1, <3>2
  <2> QED
    BY <1>1, <2>1, <2>2, <2>3, <2>4, <2>5, <2>6, <2>7, <2>8 DEF OpStep
<1>2. CASE UNCHANGED handleVars
  BY <1>2 DEF handleVars
<1> QED
  BY <1>1, <1>2 DEF Next, vars

\* The registry is emptied only when nobody counts on it.
LEMMA ResetWhenClaimless ==
  ASSUME HandlesInv, BracketInv, OneInFlight, MustReset, NEW o \in Op, at[o] = "connecting",
           NEW p \in Bracketed
  PROVE p # o => Claimless(p)
<1>1. CASE at[p] = "idle"
  BY <1>1, HandlesAssumption DEF HandlesInv, CallAt, Claimless, NoCall
<1>2. CASE at[p] # "idle"
  <2>1. resetSeq # opSeq
    BY <1>2 DEF BracketInv, MustReset
  <2>2. at[p] \notin {"ready", "calling"} /\ held[p] = NoObject
    BY <2>1 DEF BracketInv
  <2>3. CallAt(p) /\ p \in Op
    BY HandlesAssumption DEF HandlesInv
  <2>4. call[p].state \in {"waiting", "answered"} /\ call[p].method = "invoke"
          => at[p] = "calling"
    BY <2>3, HandlesAssumption DEF HandlesInv, CallAt, BridgeOK, PlacesOK, NoCall
  <2> QED
    BY <2>2, <2>4 DEF Claimless
<1> QED
  BY <1>1, <1>2

\* Every step keeps the objects of the bracketed operation safe.
LEMMA SafeKept ==
  ASSUME HandlesContext, SafeInv, [Next]_vars PROVE SafeInv'
<1> USE DEF HandlesContext, HandlesInv
<1>0. \A p \in Bracketed : p \in Op /\ SafeFor(p)
  BY HandlesAssumption DEF SafeInv
<1>1. ASSUME NEW o \in Op, OpStep(o) PROVE SafeInv'
  <2>0. ASSUME SettlesOnly, \A p \in Op \ {o} : held'[p] = held[p], held'[o] = held[o]
                 \/ held'[o] = NoObject
        PROVE SafeInv'
    BY <1>0, <2>0, SafeForSettles DEF SafeInv
  <2>10. ASSUME NEW m \in Method \ {"reset", "invoke"}, NEW t \in Nat, Calls(o, m, t),
                  held' = held PROVE SafeInv'
    <3>1. ASSUME NEW p \in Bracketed PROVE SafeFor(p)'
      <4>1. p = o \/ call'[p] = call[p]
        BY <1>0, <2>10 DEF Calls, BridgeOK, CallsOK
      <4> QED
        BY <1>0, <2>10, <4>1, SafeForCalls
    <3> QED
      BY <3>1 DEF SafeInv
  <2>1. CASE BeginOp(o) \/ EndOp(o)
    BY <2>0, <2>1, UnchangedSettles DEF BeginOp, EndOp, Leave, BridgeOK, PlacesOK
  <2>3. CASE GetResolve(o)
    <3>1. CASE Rpc(o, "connect", 0)
      BY <2>3, <2>10, <3>1, CallKinds DEF GetResolve, Method
    <3>2. CASE UNCHANGED bridgeVars
      BY <2>0, <2>3, <3>2, UnchangedSettles DEF GetResolve
    <3> QED
      BY <2>3, <3>1, <3>2 DEF GetResolve
  <2>4. CASE AfterConnect(o)
    <3>1. CASE Rpc(o, "reset", 0) /\ MustReset
      <4>1. Calls(o, "reset", 0) /\ held' = held /\ at[o] = "connecting" /\ "reset" # "invoke"
        BY <2>4, <3>1, CallKinds DEF AfterConnect
      <4>2. ASSUME NEW p \in Bracketed PROVE SafeFor(p)'
        <5>1. p \in Op /\ call' = [call EXCEPT ![o] = [state |-> "waiting", id |-> calls + 1,
                method |-> "reset", target |-> 0]]
          BY <1>0, <4>1 DEF Calls
        <5>2. CASE p # o
          <6>1. Claimless(p) /\ call'[p] = call[p] /\ held'[p] = held[p]
            BY <3>1, <4>1, <5>1, <5>2, ResetWhenClaimless DEF BridgeOK, CallsOK
          <6> QED
            BY <6>1 DEF Claimless, SafeFor, Invoking, Waiting
        <5>3. CASE p = o
          <6>1. call'[p] = [state |-> "waiting", id |-> calls + 1, method |-> "reset",
                  target |-> 0]
            BY <5>1, <5>3 DEF BridgeOK, CallsOK
          <6>2. held'[p] = NoObject
            BY <3>1, <4>1, <5>3 DEF BracketInv, MustReset
          <6> QED
            BY <6>1, <6>2 DEF SafeFor, Invoking, Waiting
        <5> QED
          BY <5>2, <5>3
      <4> QED
        BY <4>2 DEF SafeInv
    <3>2. CASE Consume(o)
      BY <2>0, <2>4, <3>2, ConsumeSettles DEF AfterConnect
    <3> QED
      BY <2>4, <3>1, <3>2 DEF AfterConnect
  <2>5. CASE AfterReset(o)
    BY <2>0, <2>5, ConsumeSettles DEF AfterReset
  <2>6. CASE Take(o)
    <3>1. Calls(o, "invoke", 0) /\ held' = held
      BY <2>6, CallKinds DEF Take
    <3>2. ASSUME NEW p \in Bracketed PROVE SafeFor(p)'
      <4>1. CASE p = o
        BY <1>0, <3>1, <4>1, SafeForInvokes
      <4>2. CASE p # o
        <5>1. call'[p] = call[p] /\ "invoke" \in Method /\ "invoke" # "reset" /\ 0 \in Nat
          BY <1>0, <3>1, <4>2 DEF Calls, BridgeOK, CallsOK, Method
        <5> QED
          BY <1>0, <3>1, <5>1, SafeForCalls
      <4> QED
        BY <4>1, <4>2
    <3> QED
      BY <3>2 DEF SafeInv
  <2>7. CASE Use(o)
    <3>1. Calls(o, "use", held[o][2]) /\ held[o][2] \in Nat /\ held' = held
            /\ "use" \in Method \ {"reset", "invoke"}
      BY <2>7, CallKinds DEF Use, Method
    <3> QED
      BY <2>10, <3>1
  <2>8. CASE AfterCall(o)
    <3>1. SettlesOnly /\ (\A p \in Op \ {o} : held'[p] = held[p])
          /\ \/ held'[o] = held[o]
             \/ /\ call[o].state = "answered" /\ call[o].method = "invoke"
                /\ "object" \in DOMAIN call[o].result /\ held'[o] = call[o].result.object
      BY <2>8, ConsumeSettles DEF AfterCall, Settled, BridgeOK, PlacesOK
    <3>2. held'[o] # held[o] => held'[o] \in Object /\ Gives(call[o].result, held'[o])
      BY <3>1, CallFields, ResultObjects DEF BridgeOK, CallsOK, Gives
    <3>3. ASSUME NEW p \in Bracketed PROVE SafeFor(p)'
      BY <1>0, <3>1, <3>2, SafeForSettles
    <3> QED
      BY <3>3 DEF SafeInv
  <2> QED
    BY <1>1, <2>1, <2>3, <2>4, <2>5, <2>6, <2>7, <2>8 DEF OpStep
<1>2. ASSUME SettlesOnly, held' = held PROVE SafeInv'
  BY <1>0, <1>2, SafeForSettles DEF SafeInv
<1>3. ASSUME BridgeStep, UNCHANGED handleVars PROVE SafeInv'
  <2>1. held' = held
    BY <1>3 DEF handleVars
  <2>2. ASSUME NEW h \in 1 .. Len(helpers), NEW r \in Request, NEW l \in Line, Serves(h, r, l)
                 PROVE SafeInv'
    BY <1>0, <2>1, <2>2, SafeForServes DEF SafeInv
  <2> QED
    BY <1>2, <1>3, <2>1, <2>2, BridgeStepCases, BridgeStepTables, QuietSettles
<1>4. CASE UNCHANGED vars
  BY <1>2, <1>4, UnchangedSettles DEF vars, handleVars
<1> QED
  BY <1>1, <1>3, <1>4 DEF Next

\* The objects a bracketed operation holds stay registered while its helper lives, as
\* long as no two bracketed operations overlap: other operations may come and go,
\* call and reset as they like (core/resolve-proxy.js, `purged ONCE per operation').
\* The run of two brackets that overlap shows that the hypothesis is needed.
THEOREM HandlesOfTheOneOperationStay ==
  Spec /\ []OneInFlight => []HandlesStayValid
<1>1. Init => BracketInv /\ SafeInv
  BY HandlesAssumption DEF Init, BridgeInit, BracketInv, SafeInv, SafeFor, Invoking, Waiting,
     NoCall
<1>2. HandlesInv /\ BracketInv /\ SafeInv /\ OneInFlight /\ OneInFlight' /\ [Next]_vars
        => BracketInv' /\ SafeInv'
  BY BracketKept, SafeKept DEF HandlesContext
<1>3. SafeInv => HandlesStayValid
  BY DEF SafeInv, SafeFor, Safe, HandlesStayValid
<1> QED
  BY <1>1, <1>2, <1>3, HandlesInvHolds, PTL DEF Spec

\* The same where there is only one operation with a bracket, as in the run.
THEOREM HandlesStayWithOneBracket ==
  ASSUME \A o, p \in Bracketed : o = p PROVE Spec => []HandlesStayValid
<1>1. OneInFlight
  BY DEF OneInFlight
<1> QED
  BY <1>1, HandlesOfTheOneOperationStay, PTL

-----------------------------------------------------------------------------
Slice == [from : HostProjects \cup {"none"}, rev : 0 .. MaxChanges]
Snapshot == [project : HostProjects \cup {"none"}, slices : [Kinds -> Slice]]
Sweep ==
  [at : {"none"}]
  \cup [at : {"mediaPool", "timelines", "tree", "cuts"}, undisturbed : BOOLEAN, fresh : Nat,
        todo : SUBSET Timelines, list : Slice, lacks : BOOLEAN]

OpenedOK == opened \in HostProjects /\ switches \in Nat /\ revision \in 0 .. MaxChanges
SnapsOK == snap \in Snapshot \cup {NoSnap} /\ onDisk \in Snapshot \cup {NoSnap}
SweepOK == sweep \in Sweep /\ unwritten \in BOOLEAN
SnapTypes == OpenedOK /\ SnapsOK /\ SweepOK

\* What a sweep has read is held back until its end.
HeldBackInv == sweep.at \in {"timelines", "tree", "cuts"} => unwritten

\* What a sweep lacks is known once it has read the tree.
GapInv == sweep.at \in {"mediaPool", "timelines", "tree"} => ~ sweep.lacks

\* What a sweep that nothing disturbed and that lacks nothing has read is in
\* memory, and current.
Current(s, k) == s.slices[k] = Reading
SweptInv ==
  sweep.at \in {"timelines", "tree", "cuts"} /\ sweep.undisturbed /\ ~ sweep.lacks =>
    /\ snap # NoSnap /\ snap.project = opened /\ Current(snap, "mediaPool")
    /\ sweep.at = "tree" => sweep.list \in {Reading, Nothing}
    /\ sweep.at = "cuts" =>
         /\ Current(snap, "timelines") /\ Current(snap, "tree")
         /\ \A k \in Timelines \ sweep.todo : Current(snap, k)
SnapInv == SnapTypes /\ HeldBackInv /\ GapInv /\ SweptInv

\* What a snapshot is made of.
LEMMA SnapshotFields ==
  ASSUME NEW s \in Snapshot \cup {NoSnap}
  PROVE /\ s # NoSnap => s \in Snapshot
        /\ s \in Snapshot => s # NoSnap /\ s.project \in HostProjects \cup {"none"}
                             /\ s.slices \in [Kinds -> Slice]
  BY DEF Snapshot, NoSnap

\* What a sweep is made of.
LEMMA SweepFields ==
  ASSUME NEW w \in Sweep
  PROVE /\ w.at \in {"none", "mediaPool", "timelines", "tree", "cuts"}
        /\ w.at = "none" <=> w = NoSweep
        /\ w.at # "none" => w.undisturbed \in BOOLEAN /\ w.fresh \in Nat
             /\ w.todo \subseteq Timelines /\ w.list \in Slice /\ w.lacks \in BOOLEAN
  BY DEF Sweep, NoSweep

\* The kinds of reading.
LEMMA KindsOf == Shared = {"mediaPool", "timelines", "tree"} /\ Kinds = Shared \cup Timelines
  BY DEF Kinds, Shared

\* A reading is a slice.
LEMMA ReadingType ==
  ASSUME OpenedOK PROVE Reading \in Slice /\ Nothing \in Slice
  BY SnapshotAssumption DEF OpenedOK, Reading, Nothing, Slice

\* ensure() gives a snapshot with room for every kind.
LEMMA EnsureType ==
  ASSUME OpenedOK, NEW s \in Snapshot \cup {NoSnap}, NEW p \in HostProjects \cup {"none"}
  PROVE /\ Ensure(s, p) \in Snapshot
        /\ s # NoSnap /\ (p = "none" \/ s.project = p) => Ensure(s, p) = s
<1>1. [project |-> p, slices |-> [k \in Kinds |-> Nothing]] \in Snapshot
  BY ReadingType DEF Snapshot
<1> QED
  BY <1>1, SnapshotFields DEF Ensure

\* warm() gives a snapshot.
LEMMA WarmedIsASnapshot ==
  ASSUME OpenedOK, NEW s \in Snapshot \cup {NoSnap}, NEW kind \in Kinds, NEW r \in Slice
  PROVE Warmed(s, kind, r) \in Snapshot /\ WarmedIfRead(s, kind, r) \in Snapshot \cup {NoSnap}
<1> DEFINE p == IF kind = "mediaPool" THEN r.from ELSE "none"
           e == Ensure(s, p)
           f == [e.slices EXCEPT ![kind] = r]
<1>0. r.from \in HostProjects \cup {"none"}
  BY DEF Slice
<1>1. e \in Snapshot
  BY <1>0, EnsureType
<1>2. Warmed(s, kind, r) =
        [project |-> IF kind = "mediaPool" THEN r.from ELSE e.project, slices |-> f]
  BY DEF Warmed
<1> HIDE DEF e
<1>3. f \in [Kinds -> Slice] /\ e.project \in HostProjects \cup {"none"}
  BY <1>1, SnapshotFields
<1> HIDE DEF f
<1>4. Warmed(s, kind, r) \in Snapshot
  BY <1>0, <1>2, <1>3 DEF Snapshot
<1> QED
  BY <1>4 DEF WarmedIfRead

\* It puts a reading in its place and leaves the others, unless the snapshot was
\* another project's.
LEMMA WarmedType ==
  ASSUME OpenedOK, NEW s \in Snapshot \cup {NoSnap}, NEW kind \in Kinds
  PROVE LET y == Warmed(s, kind, Reading)
        IN  /\ y \in Snapshot /\ Current(y, kind)
            /\ kind = "mediaPool" => y.project = opened
            /\ s # NoSnap /\ s.project = opened =>
                 y.project = opened /\ \A k \in Kinds : Current(s, k) => Current(y, k)
<1> DEFINE p == IF kind = "mediaPool" THEN opened ELSE "none"
           e == Ensure(s, p)
           f == [e.slices EXCEPT ![kind] = Reading]
           y == Warmed(s, kind, Reading)
<1>1. e \in Snapshot /\ (s # NoSnap /\ s.project = opened => e = s)
  BY EnsureType DEF OpenedOK
<1>2. Reading \in Slice /\ Reading.from = opened
  BY ReadingType DEF Reading
<1>3. y = [project |-> IF kind = "mediaPool" THEN opened ELSE e.project, slices |-> f]
  BY <1>2 DEF Warmed
<1>6. y \in Snapshot
  BY <1>2, WarmedIsASnapshot
<1> HIDE DEF e, y
<1>4. e.slices \in [Kinds -> Slice] /\ e.project \in HostProjects \cup {"none"}
  BY <1>1, SnapshotFields
<1>5. f \in [Kinds -> Slice] /\ f[kind] = Reading /\ \A k \in Kinds : k # kind
        => f[k] = e.slices[k]
  BY <1>2, <1>4
<1> HIDE DEF f
<1>7. y.project = (IF kind = "mediaPool" THEN opened ELSE e.project) /\ y.slices = f
  BY <1>3
<1> QED
  BY <1>1, <1>5, <1>6, <1>7 DEF Current, y

\* What is pruned is a snapshot; nothing goes when every timeline is listed.
LEMMA PrunedType ==
  ASSUME OpenedOK, NEW s \in Snapshot, NEW names
  PROVE /\ Pruned(s, names) \in Snapshot
        /\ names = Timelines =>
             /\ Pruned(s, names).project = s.project
             /\ \A k \in Kinds : Current(s, k) => Current(Pruned(s, names), k)
<1> DEFINE f == [k \in Kinds |-> IF k \in Timelines \ names THEN Nothing ELSE s.slices[k]]
<1>1. s.slices \in [Kinds -> Slice] /\ s.project \in HostProjects \cup {"none"}
  BY SnapshotFields
<1>2. f \in [Kinds -> Slice]
  BY <1>1, ReadingType
<1>3. s = [project |-> s.project, slices |-> s.slices]
  BY DEF Snapshot
<1>4. Pruned(s, names) = [project |-> s.project, slices |-> f]
  BY <1>3 DEF Pruned
<1>5. names = Timelines => \A k \in Kinds : f[k] = s.slices[k]
  OBVIOUS
<1> HIDE DEF f
<1>6. Pruned(s, names) \in Snapshot
  BY <1>1, <1>2, <1>4 DEF Snapshot
<1> QED
  BY <1>4, <1>5, <1>6 DEF Current

\* A snapshot that is read back from the file is one.
LEMMA LoadedType ==
  ASSUME NEW s \in Snapshot \cup {NoSnap} PROVE Loaded(s) \in Snapshot \cup {NoSnap}
  BY DEF Loaded

\* Whatever is written, the file is a snapshot.
LEMMA PersistType ==
  ASSUME onDisk \in Snapshot \cup {NoSnap}, NEW s \in Snapshot \cup {NoSnap}, Persist(s)
  PROVE onDisk' \in Snapshot \cup {NoSnap}
  BY DEF Persist

\* Every step keeps the project that is open.
LEMMA OpenedStep == ASSUME SnapTypes, SnapNext PROVE OpenedOK'
<1> USE DEF SnapTypes, OpenedOK
<1>1. ASSUME NEW p \in HostProjects, OpenProject(p) PROVE OpenedOK'
  BY <1>1 DEF OpenProject
<1>2. CASE EditProject
  BY <1>2, SnapshotAssumption DEF EditProject
<1>3. ASSUME UNCHANGED host PROVE OpenedOK'
  BY <1>3 DEF host
<1> QED
  BY <1>1, <1>2, <1>3
     DEF SnapNext, LiveReading, ClearSnapshot, StartCapture, CaptureMediaPool, CaptureTimelines,
         CaptureTree, CaptureCuts, CaptureReturns, CaptureIncomplete, CaptureFails, SnapKilled

\* What a reading of the sweep returns is a slice.
LEMMA ReadingEndsType ==
  ASSUME OpenedOK, NEW r, ReadingEnds(r) PROVE r \in {Reading, Nothing} /\ r \in Slice
  BY ReadingType DEF ReadingEnds

\* Every step keeps snapshots snapshots.
LEMMA SnapsStep == ASSUME SnapTypes, SnapNext PROVE SnapsOK'
<1> USE DEF SnapTypes, SnapsOK
<1>1. ASSUME NEW k \in Kinds PROVE Warmed(snap, k, Reading) \in Snapshot
  BY WarmedType
<1>2. ASSUME NEW k \in Kinds, Touch(Warmed(snap, k, Reading)) PROVE SnapsOK'
  BY <1>1, <1>2, PersistType DEF Touch
<1>3. ASSUME NEW p \in HostProjects, OpenProject(p) PROVE SnapsOK'
  BY <1>3 DEF OpenProject
<1>4. CASE EditProject \/ StartCapture \/ CaptureTimelines
  BY <1>4 DEF EditProject, StartCapture, CaptureTimelines
<1>5. ASSUME NEW k \in Kinds, LiveReading(k) PROVE SnapsOK'
  BY <1>2, <1>5 DEF LiveReading
<1>6. CASE ClearSnapshot
  BY <1>6, PersistType DEF ClearSnapshot
<1>7. CASE CaptureMediaPool
  BY <1>2, <1>7, KindsOf DEF CaptureMediaPool
<1>8. CASE CaptureTree
  <2>1. PICK r \in {Reading, Nothing} :
          LET names == IF sweep.list = Nothing THEN {} ELSE Timelines
              s == WarmedIfRead(WarmedIfRead(snap, "timelines", sweep.list), "tree", r)
          IN ReadingEnds(r) /\ snap' = Pruned(Ensure(s, "none"), names)
    BY <1>8 DEF CaptureTree
  <2>2. sweep.list \in Slice /\ r \in Slice
    BY <1>8, ReadingType, SweepFields DEF CaptureTree, SweepOK
  <2> DEFINE l == WarmedIfRead(snap, "timelines", sweep.list)
             s == WarmedIfRead(l, "tree", r)
             e == Ensure(s, "none")
  <2>3. l \in Snapshot \cup {NoSnap}
    BY <2>2, KindsOf, WarmedIsASnapshot
  <2> HIDE DEF l
  <2>4. s \in Snapshot \cup {NoSnap}
    BY <2>2, <2>3, KindsOf, WarmedIsASnapshot
  <2> HIDE DEF s
  <2>5. e \in Snapshot
    BY <2>4, EnsureType
  <2> HIDE DEF e
  <2>6. snap' = Pruned(e, IF sweep.list = Nothing THEN {} ELSE Timelines)
    BY <2>1 DEF e, s, l
  <2>7. snap' \in Snapshot
    BY <2>5, <2>6, PrunedType
  <2> QED
    BY <1>8, <2>7 DEF CaptureTree
<1>9. ASSUME NEW name \in Timelines, CaptureCuts(name) PROVE SnapsOK'
  <2> DEFINE y == Warmed(snap, name, Reading)
  <2>1. y \in Snapshot
    BY <1>1, KindsOf
  <2>2. snap' = y \/ snap' = snap
    BY <1>9 DEF CaptureCuts
  <2>3. onDisk' = onDisk \/ Persist(y)
    BY <1>9 DEF CaptureCuts
  <2> HIDE DEF y
  <2> QED
    BY <2>1, <2>2, <2>3, PersistType
<1>10. CASE CaptureReturns \/ CaptureIncomplete
  BY <1>10 DEF CaptureReturns, CaptureIncomplete
<1>11. CASE CaptureFails
  BY <1>11 DEF CaptureFails
<1>12. CASE SnapKilled
  BY <1>12, LoadedType DEF SnapKilled
<1> QED
  BY <1>3, <1>4, <1>5, <1>6, <1>7, <1>8, <1>9, <1>10, <1>11, <1>12 DEF SnapNext

\* A sweep in progress; what one step of it changes keeps its range.
OngoingSweep ==
  [at : {"mediaPool", "timelines", "tree", "cuts"}, undisturbed : BOOLEAN, fresh : Nat,
   todo : SUBSET Timelines, list : Slice, lacks : BOOLEAN]

LEMMA OngoingSteps ==
  ASSUME NEW w \in OngoingSweep
  PROVE /\ w \in Sweep
        /\ [w EXCEPT !.undisturbed = FALSE] \in OngoingSweep
        /\ [w EXCEPT !.at = "timelines"] \in OngoingSweep
        /\ \A r \in Slice : [w EXCEPT !.at = "tree", !.list = r] \in OngoingSweep
        /\ \A t \in SUBSET Timelines, r \in Slice, b \in BOOLEAN :
             [w EXCEPT !.at = "cuts", !.todo = t, !.list = r, !.lacks = b] \in OngoingSweep
        /\ \A t \in SUBSET Timelines, b \in BOOLEAN :
             [w EXCEPT !.todo = t, !.lacks = b] \in OngoingSweep
        /\ \A t \in SUBSET Timelines : [w EXCEPT !.todo = t] \in OngoingSweep
        /\ \A t \in SUBSET Timelines, n \in Nat : [w EXCEPT !.todo = t, !.fresh = n] \in OngoingSweep
<1>1. w \in Sweep
  BY DEF OngoingSweep, Sweep
<1>2. /\ [w EXCEPT !.undisturbed = FALSE] \in OngoingSweep
      /\ [w EXCEPT !.at = "timelines"] \in OngoingSweep
  BY DEF OngoingSweep
<1>3. ASSUME NEW r \in Slice PROVE [w EXCEPT !.at = "tree", !.list = r] \in OngoingSweep
  BY DEF OngoingSweep
<1>4. ASSUME NEW t \in SUBSET Timelines, NEW r \in Slice, NEW b \in BOOLEAN
      PROVE [w EXCEPT !.at = "cuts", !.todo = t, !.list = r, !.lacks = b] \in OngoingSweep
  BY DEF OngoingSweep
<1>5. ASSUME NEW t \in SUBSET Timelines, NEW b \in BOOLEAN
      PROVE [w EXCEPT !.todo = t, !.lacks = b] \in OngoingSweep
  BY DEF OngoingSweep
<1>6. ASSUME NEW t \in SUBSET Timelines
      PROVE [w EXCEPT !.todo = t] \in OngoingSweep
            /\ \A n \in Nat : [w EXCEPT !.todo = t, !.fresh = n] \in OngoingSweep
  BY DEF OngoingSweep
<1> QED
  BY <1>1, <1>2, <1>3, <1>4, <1>5, <1>6

LEMMA SweepRuns ==
  ASSUME NEW w \in Sweep, w.at # "none" PROVE w \in OngoingSweep
  BY DEF Sweep, OngoingSweep

\* Every step keeps the sweep and the flag of what is held back.
LEMMA SweepStep == ASSUME SnapTypes, SnapNext PROVE SweepOK'
<1> USE SweepFields DEF SnapTypes, SweepOK
<1>0. Disturbed \in Sweep /\ NoSweep \in Sweep
  BY SweepRuns, OngoingSteps DEF Disturbed, NoSweep, Sweep
<1>1. ASSUME NEW p \in HostProjects, OpenProject(p) PROVE SweepOK'
  BY <1>0, <1>1 DEF OpenProject
<1>2. CASE EditProject \/ ClearSnapshot
  BY <1>0, <1>2 DEF EditProject, ClearSnapshot
<1>3. ASSUME NEW k \in Kinds, LiveReading(k) PROVE SweepOK'
  BY <1>3 DEF LiveReading, Touch
<1>4. CASE StartCapture
  BY <1>4, ReadingType DEF StartCapture, Sweep
<1>5. CASE CaptureMediaPool
  BY <1>5, SweepRuns, OngoingSteps DEF CaptureMediaPool, Touch
<1>6. CASE CaptureTimelines
  <2>1. PICK r \in {Reading, Nothing} : sweep' = [sweep EXCEPT !.at = "tree", !.list = r]
    BY <1>6 DEF CaptureTimelines
  <2>2. r \in Slice /\ sweep \in OngoingSweep
    BY <1>6, ReadingType, SweepRuns DEF CaptureTimelines
  <2> QED
    BY <1>6, <2>1, <2>2, OngoingSteps DEF CaptureTimelines
<1>7. CASE CaptureTree
  <2> DEFINE names == IF sweep.list = Nothing THEN {} ELSE Timelines
  <2>1. PICK r \in {Reading, Nothing} :
          sweep' = [sweep EXCEPT !.at = "cuts", !.todo = names, !.list = Nothing,
                                 !.lacks = Nothing \in {sweep.list, r}]
    BY <1>7 DEF CaptureTree
  <2>2. Nothing \in Slice /\ sweep \in OngoingSweep /\ names \in SUBSET Timelines
        /\ (Nothing \in {sweep.list, r}) \in BOOLEAN
    BY <1>7, ReadingType, SweepRuns DEF CaptureTree
  <2> HIDE DEF names
  <2> QED
    BY <1>7, <2>1, <2>2, OngoingSteps DEF CaptureTree
<1>8. ASSUME NEW name \in Timelines, CaptureCuts(name) PROVE SweepOK'
  <2> DEFINE t == sweep.todo \ {name}
             n == sweep.fresh + 1
  <2>1. sweep \in OngoingSweep /\ t \in SUBSET Timelines /\ n \in Nat
    BY <1>8, SweepRuns DEF CaptureCuts
  <2>2. \/ sweep' = [sweep EXCEPT !.todo = t, !.lacks = TRUE]
        \/ sweep' = [sweep EXCEPT !.todo = t]
        \/ sweep' = [sweep EXCEPT !.todo = t, !.fresh = n]
    BY <1>8 DEF CaptureCuts
  <2>3. unwritten' \in BOOLEAN
    BY <1>8 DEF CaptureCuts
  <2> HIDE DEF t, n
  <2> QED
    BY <2>1, <2>2, <2>3, OngoingSteps
<1>9. CASE CaptureReturns \/ CaptureIncomplete \/ CaptureFails \/ SnapKilled
  BY <1>0, <1>9 DEF CaptureReturns, CaptureIncomplete, CaptureFails, SnapKilled
<1> QED
  BY <1>1, <1>2, <1>3, <1>4, <1>5, <1>6, <1>7, <1>8, <1>9 DEF SnapNext

\* Every step of a sweep that has read something holds it back.
LEMMA HeldBackStep == ASSUME SnapTypes, HeldBackInv, SnapNext PROVE HeldBackInv'
<1> USE SweepFields DEF SnapTypes, SweepOK, HeldBackInv
<1>1. Disturbed.at = sweep.at
  BY DEF Disturbed, Sweep, NoSweep
<1>2. ASSUME NEW s, Touch(s) PROVE unwritten' \/ sweep.at = "none"
  BY <1>2 DEF Touch
<1>3. ASSUME NEW k \in Kinds, LiveReading(k) PROVE HeldBackInv'
  BY <1>2, <1>3 DEF LiveReading
<1>4. CASE CaptureMediaPool
  BY <1>2, <1>4 DEF CaptureMediaPool
<1>5. CASE EditProject \/ ClearSnapshot \/ \E p \in HostProjects : OpenProject(p)
  BY <1>1, <1>5 DEF EditProject, ClearSnapshot, OpenProject
<1>6. CASE StartCapture
  BY <1>6 DEF StartCapture
<1>7. CASE CaptureTimelines \/ CaptureTree \/ \E name \in Timelines : CaptureCuts(name)
  BY <1>7 DEF CaptureTimelines, CaptureTree, CaptureCuts
<1>8. CASE CaptureReturns \/ CaptureIncomplete \/ CaptureFails \/ SnapKilled
  BY <1>8 DEF CaptureReturns, CaptureIncomplete, CaptureFails, SnapKilled, NoSweep
<1> QED
  BY <1>3, <1>4, <1>5, <1>6, <1>7, <1>8 DEF SnapNext

\* A sweep starts with nothing lacking, and learns of it with the tree.
LEMMA GapStep == ASSUME SnapTypes, GapInv, SnapNext PROVE GapInv'
<1> USE SweepFields DEF SnapTypes, SweepOK, GapInv
<1>1. Disturbed.at = sweep.at /\ (sweep.at # "none" => Disturbed.lacks = sweep.lacks)
  BY DEF Disturbed, Sweep, NoSweep
<1>2. CASE EditProject \/ ClearSnapshot \/ \E p \in HostProjects : OpenProject(p)
  BY <1>1, <1>2 DEF EditProject, ClearSnapshot, OpenProject
<1>3. CASE StartCapture \/ \E k \in Kinds : LiveReading(k)
  BY <1>3 DEF StartCapture, LiveReading
<1>4. CASE CaptureMediaPool \/ CaptureTimelines
  BY <1>4 DEF CaptureMediaPool, CaptureTimelines, Sweep
<1>5. CASE CaptureTree \/ \E name \in Timelines : CaptureCuts(name)
  BY <1>5 DEF CaptureTree, CaptureCuts, Sweep
<1>6. CASE CaptureReturns \/ CaptureIncomplete \/ CaptureFails \/ SnapKilled
  BY <1>6 DEF CaptureReturns, CaptureIncomplete, CaptureFails, SnapKilled, NoSweep
<1> QED
  BY <1>2, <1>3, <1>4, <1>5, <1>6 DEF SnapNext

\* Every step keeps what the sweep has read, or disturbs it.
LEMMA SweptStep == ASSUME SnapInv, SnapNext PROVE SweptInv'
<1> USE SweepFields DEF SnapInv, SnapTypes, SweepOK, SnapsOK
<1>0. ASSUME host' = host PROVE Reading' = Reading /\ opened' = opened /\ Nothing' = Nothing
  BY <1>0 DEF host, Reading, Nothing
<1>1. ASSUME NEW p \in HostProjects, OpenProject(p) PROVE SweptInv'
  BY <1>1 DEF OpenProject, Disturbed, NoSweep, SweptInv, Sweep
<1>2. CASE EditProject \/ ClearSnapshot
  BY <1>2 DEF EditProject, ClearSnapshot, Disturbed, NoSweep, SweptInv, Sweep
<1>3. ASSUME NEW k \in Kinds, LiveReading(k) PROVE SweptInv'
  <2> DEFINE y == Warmed(snap, k, Reading)
  <2>1. snap' = y /\ sweep' = sweep /\ Reading' = Reading /\ opened' = opened
        /\ Nothing' = Nothing
    BY <1>0, <1>3 DEF LiveReading, Touch
  <2>2. /\ y \in Snapshot
        /\ snap # NoSnap /\ snap.project = opened =>
             y.project = opened /\ \A j \in Kinds : Current(snap, j) => Current(y, j)
    BY WarmedType
  <2> HIDE DEF y
  <2> QED
    BY <2>1, <2>2, KindsOf, SnapshotFields DEF SweptInv, Current
<1>4. CASE StartCapture
  BY <1>4 DEF StartCapture, SweptInv
<1>5. CASE CaptureMediaPool
  <2> DEFINE y == Warmed(snap, "mediaPool", Reading)
  <2>1. /\ snap' = y /\ sweep' = [sweep EXCEPT !.at = "timelines"] /\ sweep.at = "mediaPool"
        /\ Reading' = Reading /\ opened' = opened
    BY <1>0, <1>5 DEF CaptureMediaPool, Touch
  <2>2. sweep'.at = "timelines"
    BY <2>1 DEF Sweep
  <2>3. y \in Snapshot /\ Current(y, "mediaPool") /\ y.project = opened
    BY KindsOf, WarmedType
  <2> HIDE DEF y
  <2> QED
    BY <2>1, <2>2, <2>3, SnapshotFields DEF SweptInv, Current
<1>6. CASE CaptureTimelines
  <2>1. PICK r \in {Reading, Nothing} : sweep' = [sweep EXCEPT !.at = "tree", !.list = r]
    BY <1>6 DEF CaptureTimelines
  <2>2. /\ snap' = snap /\ sweep.at = "timelines"
        /\ Reading' = Reading /\ opened' = opened /\ Nothing' = Nothing
    BY <1>0, <1>6 DEF CaptureTimelines
  <2>3. /\ sweep'.at = "tree" /\ sweep'.undisturbed = sweep.undisturbed
        /\ sweep'.lacks = sweep.lacks /\ sweep'.list = r
    BY <2>1, <2>2 DEF Sweep
  <2> QED
    BY <2>1, <2>2, <2>3 DEF SweptInv, Current
<1>7. CASE CaptureTree
  <2> SUFFICES ASSUME sweep'.undisturbed, ~ sweep'.lacks PROVE SweptInv'
    BY DEF SweptInv
  <2> DEFINE names == IF sweep.list = Nothing THEN {} ELSE Timelines
             l == WarmedIfRead(snap, "timelines", sweep.list)
  <2>1. PICK r \in {Reading, Nothing} :
          /\ snap' = Pruned(Ensure(WarmedIfRead(l, "tree", r), "none"), names)
          /\ sweep' = [sweep EXCEPT !.at = "cuts", !.todo = names, !.list = Nothing,
                                    !.lacks = Nothing \in {sweep.list, r}]
    BY <1>7 DEF CaptureTree
  <2>2. sweep.at = "tree" /\ Reading' = Reading /\ opened' = opened
    BY <1>0, <1>7 DEF CaptureTree
  <2>3. /\ sweep'.at = "cuts" /\ sweep'.undisturbed = sweep.undisturbed
        /\ sweep'.todo = names /\ sweep'.lacks = (Nothing \in {sweep.list, r})
    BY <2>1, <2>2 DEF Sweep
  <2>4. sweep.list # Nothing /\ r = Reading /\ r # Nothing
    BY <2>1, <2>3
  <2>5. ~ sweep.lacks
    BY <2>2 DEF GapInv
  <2>6. /\ snap # NoSnap /\ snap.project = opened /\ Current(snap, "mediaPool")
        /\ sweep.list = Reading
    BY <2>2, <2>3, <2>4, <2>5 DEF SweptInv
  <2> DEFINE y == Warmed(snap, "timelines", Reading)
             z == Warmed(y, "tree", Reading)
  <2>7. snap' = Pruned(Ensure(z, "none"), Timelines) /\ names = Timelines
    BY <2>1, <2>4, <2>6 DEF WarmedIfRead
  <2>8. /\ y \in Snapshot /\ Current(y, "timelines") /\ y.project = opened
        /\ Current(y, "mediaPool")
    BY <2>6, KindsOf, WarmedType
  <2> HIDE DEF y
  <2>9. /\ z \in Snapshot /\ Current(z, "tree") /\ z.project = opened
        /\ Current(z, "mediaPool") /\ Current(z, "timelines")
    BY <2>8, KindsOf, SnapshotFields, WarmedType
  <2> HIDE DEF z, names
  <2>10. Ensure(z, "none") = z
    BY <2>9, SnapshotFields, EnsureType
  <2>11. /\ snap' \in Snapshot /\ snap'.project = opened
         /\ \A k \in Shared : snap'.slices[k] = Reading
    BY <2>7, <2>9, <2>10, KindsOf, PrunedType DEF Current
  <2> QED
    BY <2>2, <2>3, <2>7, <2>11, KindsOf, SnapshotFields DEF SweptInv, Current
<1>8. ASSUME NEW name \in Timelines, CaptureCuts(name) PROVE SweptInv'
  <2> SUFFICES ASSUME sweep'.undisturbed, ~ sweep'.lacks PROVE SweptInv'
    BY DEF SweptInv
  <2> DEFINE y == Warmed(snap, name, Reading)
             t == sweep.todo \ {name}
  <2>1. Reading' = Reading /\ opened' = opened /\ sweep.at = "cuts" /\ sweep \in OngoingSweep
    BY <1>0, <1>8, SweepRuns DEF CaptureCuts
  <2>2. \/ sweep' = [sweep EXCEPT !.todo = t, !.lacks = TRUE]
        \/ /\ sweep' = [sweep EXCEPT !.todo = t]
           /\ Ensure(snap, "none").slices[name] = Reading /\ snap' = snap
        \/ /\ sweep' = [sweep EXCEPT !.todo = t, !.fresh = @ + 1]
           /\ snap' = y
    BY <1>8 DEF CaptureCuts
  <2>3. /\ sweep'.at = "cuts" /\ sweep'.undisturbed = sweep.undisturbed
        /\ sweep'.todo = t /\ ~ sweep.lacks
    BY <2>1, <2>2 DEF OngoingSweep
  <2>4. snap # NoSnap => Ensure(snap, "none") = snap
    BY EnsureType
  <2>5. \/ snap' = y
        \/ snap' = snap /\ (snap # NoSnap => Current(snap, name))
    BY <2>1, <2>2, <2>4 DEF Current, OngoingSweep
  <2>6. /\ y \in Snapshot /\ Current(y, name)
        /\ snap # NoSnap /\ snap.project = opened =>
             y.project = opened /\ \A j \in Kinds : Current(snap, j) => Current(y, j)
    BY KindsOf, WarmedType
  <2> HIDE DEF y
  <2> QED
    BY <2>1, <2>3, <2>5, <2>6, KindsOf, SnapshotFields DEF SweptInv, Current
<1>9. CASE CaptureReturns \/ CaptureIncomplete \/ CaptureFails \/ SnapKilled
  BY <1>9 DEF CaptureReturns, CaptureIncomplete, CaptureFails, SnapKilled, SweptInv, NoSweep
<1> QED
  BY <1>1, <1>2, <1>3, <1>4, <1>5, <1>6, <1>7, <1>8, <1>9 DEF SnapNext

\* Nothing was read at first.
LEMMA SnapInvInit == ASSUME SnapInit PROVE SnapInv
<1> USE DEF SnapInit, NoSweep
<1>0. OpenedOK
  BY SnapshotAssumption DEF OpenedOK
<1>1. SnapTypes
  BY <1>0 DEF SnapTypes, SnapsOK, SweepOK, Sweep
<1>2. HeldBackInv /\ GapInv /\ SweptInv
  BY DEF HeldBackInv, GapInv, SweptInv
<1> QED
  BY <1>1, <1>2 DEF SnapInv

\* Every step keeps the invariant.
LEMMA SnapInvStep == ASSUME SnapInv, [SnapNext]_snapVars PROVE SnapInv'
<1>1. CASE SnapNext
  BY <1>1, OpenedStep, SnapsStep, SweepStep, HeldBackStep, GapStep, SweptStep
     DEF SnapInv, SnapTypes
<1>2. CASE UNCHANGED snapVars
  BY <1>2 DEF snapVars, SnapInv, SnapTypes, OpenedOK, SnapsOK, SweepOK, HeldBackInv, GapInv, SweptInv,
              Current, Reading
<1> QED
  BY <1>1, <1>2

\* The inductive invariant of the snapshot.
LEMMA SnapInvHolds == SnapSpec => []SnapInv
  BY SnapInvInit, SnapInvStep, PTL DEF SnapSpec

\* A capture that reports success and was not disturbed leaves every slice in the
\* file, current and of the open project (core/projectSnapshot.js, capture),
\* whichever readings and writings fail in it and before it and whatever the
\* renderer reads meanwhile, for any projects, timelines and checkpoints.
THEOREM ACaptureThatReturnsIsComplete == SnapSpec => ACaptureIsComplete
<1> DEFINE Complete ==
      sweep # NoSweep /\ CaptureReturns /\ sweep.undisturbed =>
        /\ onDisk' = snap /\ onDisk'.project = opened
        /\ \A k \in Kinds : onDisk'.slices[k] = Reading
<1>1. ASSUME SnapInv, [SnapNext]_snapVars PROVE [Complete]_snapVars
  <2> SUFFICES ASSUME CaptureReturns, sweep.undisturbed PROVE Complete
    OBVIOUS
  <2>1. sweep.at = "cuts" /\ sweep.todo = {} /\ ~ sweep.lacks
    BY DEF CaptureReturns, SweepIsOver
  <2>2. snap.project = opened /\ \A k \in Kinds : Current(snap, k)
    BY <1>1, <2>1, KindsOf DEF SnapInv, SweptInv
  <2>3. onDisk' = snap
    BY <1>1, <2>1 DEF CaptureReturns, MustWrite, SnapInv, HeldBackInv
  <2> QED
    BY <2>2, <2>3 DEF Current
<1> QED
  BY <1>1, SnapInvHolds, PTL DEF SnapSpec, ACaptureIsComplete

\* Every variable of the snapshot stays in its range (core/projectSnapshot.js).
THEOREM SnapshotTypes == SnapSpec => []SnapTypeOK
<1>1. SnapInv => SnapTypeOK
  BY SnapshotFields, SweepFields
     DEF SnapInv, SnapTypes, OpenedOK, SnapsOK, SweepOK, SnapTypeOK, Slice
<1> QED
  BY <1>1, SnapInvHolds, PTL
-----------------------------------------------------------------------------
\* What the flush in progress has still to apply waits, and what was built in
\* this life of the core does not wait any more, or is being marked.
MarkedBuilt(e) ==
  builds[e] = boxKills + 1 =>
    \/ status[e] \notin {"none", "pending"}
    \/ applying = "built" /\ IsOldest(e, flushList)
FlushWaits == \A e \in flushList : status[e] = "pending"
BuildsInv == FlushWaits /\ \A e \in SendIds : MarkedBuilt(e)
SendsInv == BoxTypeOK /\ BuildsInv /\ SendsAreKept

FileOK == boxFile \in [ids : SUBSET SendIds, status : Statuses]
QueueOK == box \subseteq SendIds /\ status \in Statuses
SettingsOK == boxEnabled \in BOOLEAN /\ boxSingle \in BOOLEAN /\ boxTimer \in BOOLEAN
HostOK ==
  /\ hostUp \in BOOLEAN /\ unsaved \subseteq SendIds \cup {UserEdit}
  /\ openTl \in SendIds \cup {UserTl}
FlushOK ==
  /\ flushList \subseteq SendIds
  /\ applying \in {"no", "sent", "built", "refused"}
  /\ applying = "no" <=> flushList = {}
  /\ flushFirst \in SendIds \cup {UserTl}
BuiltOK ==
  /\ builtIn \in [SendIds -> SendIds \cup {UserTl}]
  /\ builds \in [SendIds -> Nat] /\ boxKills \in Nat

LEMMA BoxTypesAre ==
  BoxTypeOK <=> FileOK /\ QueueOK /\ SettingsOK /\ HostOK /\ FlushOK /\ BuiltOK
  BY Zenon DEF BoxTypeOK, FileOK, QueueOK, SettingsOK, HostOK, FlushOK, BuiltOK

\* The steps on the queue and those of the rest that touch what it keeps.
BoxQueueStep ==
  \/ BoxNext \/ BoxKilled
  \/ UNCHANGED boxVars
  \/ UNCHANGED boxRest /\ HostOK'
  \/ HostOnline /\ UNCHANGED <<hostState, queueState, boxSettings, flushList, flushFirst, applying,
                              builds, builtIn, boxKills>>

-----------------------------------------------------------------------------
LEMMA SaveFields ==
  ASSUME NEW b, NEW st, Save(b, st)
  PROVE  box' = b /\ boxFile'.ids = b /\ boxFile'.status = st /\ boxFile' = [ids |-> b, status |-> st]
  BY DEF Save

LEMMA TrimKeeps ==
  ASSUME NEW b, NEW st PROVE TrimDone(b, st) \subseteq b
  BY DEF TrimDone

LEMMA StatusSet ==
  ASSUME NEW e \in SendIds, NEW s \in {"none", "pending", "done", "error", "gone"}, status \in Statuses,
         status' = [status EXCEPT ![e] = s]
  PROVE  status' \in Statuses /\ status'[e] = s /\ \A x \in SendIds \ {e} : status'[x] = status[x]
  BY DEF Statuses

LEMMA BoxFileAfterKill ==
  ASSUME FileOK, QueueOK, BoxKilled
  PROVE  /\ status' \in Statuses
         /\ \A e \in SendIds : e \in box' => status'[e] = boxFile.status[e]
<1>1. boxFile.ids \subseteq SendIds /\ boxFile.status \in Statuses
  BY DEF FileOK
<1>2. \A e \in SendIds : boxFile.status[e] \in {"none", "pending", "done", "error", "gone"}
  BY <1>1 DEF Statuses
<1>3. status' = [e \in SendIds |-> IF e \in boxFile.ids THEN boxFile.status[e]
                                   ELSE IF status[e] = "none" THEN "none" ELSE "gone"]
  BY DEF BoxKilled
<1>4. box' = boxFile.ids
  BY DEF BoxKilled
<1> QED
  BY <1>2, <1>3, <1>4 DEF Statuses

LEMMA FlushStarts ==
  ASSUME QueueOK, FlushOK, StartFlush
  PROVE  FlushOK' /\ (flushList' = flushList \/ flushList' = PendingIn(box, status))
<1>1. PendingIn(box, status) \subseteq SendIds
  BY DEF PendingIn, QueueOK
<1> QED
  BY <1>1 DEF StartFlush, FlushOK, IsOldest

\* A step of the host and of the poller leaves the queue alone.
LEMMA QueueStepCases ==
  ASSUME HostOK, [PowerNext]_hostVars PROVE BoxQueueStep
<1>1. CASE BoxNext
  BY <1>1 DEF BoxQueueStep
<1>2. CASE CoreRestarts
  BY <1>2 DEF CoreRestarts, BoxQueueStep
<1>3. CASE Poll
  BY <1>3 DEF Poll, BoxQueueStep, boxVars, flushState, hostState
<1>4. CASE ReopenEnds
  BY <1>4 DEF ReopenEnds, BoxQueueStep
<1>5. CASE UserActs \/ CloseSaves \/ CloseKills \/ ReopenLaunches
  BY <1>5 DEF UserActs, CloseSaves, CloseKills, ReopenLaunches, BoxQueueStep, HostOK
<1>6. CASE \/ \E again \in BOOLEAN : CloseBegins(again)
           \/ CloseConfirms \/ CloseFails \/ ReopenBegins \/ ReopenFails
           \/ ReconcileAsks \/ ReconcileEnds \/ UNCHANGED hostVars
  BY <1>6, Zenon DEF CloseBegins, CloseConfirms, CloseFails, ReopenBegins, ReopenFails,
     ReconcileAsks, ReconcileEnds, hostVars, BoxQueueStep
<1> QED
  BY <1>1, <1>2, <1>3, <1>4, <1>5, <1>6, Zenon DEF PowerNext

LEMMA BoxTypesStep ==
  ASSUME OutboxAssumption, BoxTypeOK, BoxQueueStep
  PROVE  BoxTypeOK'
<1> FileOK /\ QueueOK /\ SettingsOK /\ HostOK /\ FlushOK /\ BuiltOK
  BY BoxTypesAre
<1> SUFFICES FileOK' /\ QueueOK' /\ SettingsOK' /\ HostOK' /\ FlushOK' /\ BuiltOK'
  BY Zenon DEF BoxTypeOK, FileOK, QueueOK, SettingsOK, HostOK, FlushOK, BuiltOK
<1>1. ASSUME NEW e \in SendIds, EnqueueSend(e)
      PROVE  FileOK' /\ QueueOK' /\ SettingsOK' /\ HostOK' /\ FlushOK' /\ BuiltOK'
  <2>1. status' \in Statuses
    BY <1>1, StatusSet DEF EnqueueSend, QueueOK
  <2>2. box \cup {e} \subseteq SendIds
    BY DEF QueueOK
  <2>3. Save(TrimDone(box \cup {e}, status'), status')
    BY <1>1 DEF EnqueueSend
  <2> DEFINE b == TrimDone(box \cup {e}, status')
  <2>4. b \subseteq SendIds
    BY <2>2, TrimKeeps
  <2> HIDE DEF b
  <2>5. Save(b, status')
    BY <2>3 DEF b
  <2>6. FileOK' /\ QueueOK'
    BY <2>1, <2>4, <2>5, SaveFields DEF FileOK, QueueOK
  <2>7. SettingsOK' /\ HostOK' /\ FlushOK' /\ BuiltOK'
    BY <1>1, Zenon DEF EnqueueSend, hostState, boxSettings, flushState, SettingsOK, HostOK,
       FlushOK, BuiltOK
  <2> QED
    BY <2>6, <2>7
<1>2. ASSUME NEW gone \in SUBSET SendIds, RemoveSends(gone)
      PROVE  FileOK' /\ QueueOK' /\ SettingsOK' /\ HostOK' /\ FlushOK' /\ BuiltOK'
  <2>1. FileOK' /\ QueueOK'
    BY <1>2 DEF RemoveSends, Save, FileOK, QueueOK
  <2>2. SettingsOK' /\ HostOK' /\ FlushOK' /\ BuiltOK'
    BY <1>2, Zenon DEF RemoveSends, hostState, boxSettings, flushState, SettingsOK, HostOK,
       FlushOK, BuiltOK
  <2> QED
    BY <2>1, <2>2
<1>3. CASE SetEnabled
  <2>1. FileOK' /\ QueueOK'
    BY <1>3 DEF SetEnabled, Save, FileOK, QueueOK
  <2>2. SettingsOK' /\ HostOK' /\ FlushOK' /\ BuiltOK'
    BY <1>3, Zenon DEF SetEnabled, hostState, flushState, SettingsOK, HostOK, FlushOK, BuiltOK
  <2> QED
    BY <2>1, <2>2
<1>4. CASE FlushAsked \/ BoxTimerFires
  <2>1. FlushOK'
    BY <1>4, FlushStarts DEF FlushAsked, BoxTimerFires
  <2>2. FileOK' /\ QueueOK' /\ SettingsOK' /\ HostOK' /\ BuiltOK'
    BY <1>4, Zenon DEF FlushAsked, BoxTimerFires, hostState, queueState, boxSettings, FileOK, QueueOK,
       SettingsOK, HostOK, BuiltOK
  <2> QED
    BY <2>1, <2>2
<1>5. CASE BuildRefused
  <2>1. FlushOK'
    BY <1>5 DEF BuildRefused, FlushOK
  <2>2. FileOK' /\ QueueOK' /\ SettingsOK' /\ HostOK' /\ BuiltOK'
    BY <1>5, Zenon DEF BuildRefused, hostState, queueState, boxSettings, FileOK, QueueOK,
       SettingsOK, HostOK, BuiltOK
  <2> QED
    BY <2>1, <2>2
<1>6. ASSUME NEW e \in SendIds, Build(e)
      PROVE  FileOK' /\ QueueOK' /\ SettingsOK' /\ HostOK' /\ FlushOK' /\ BuiltOK'
  <2>1. FlushOK'
    BY <1>6 DEF Build, FlushOK
  <2>2. openTl' \in SendIds \cup {UserTl}
    BY <1>6 DEF Build, HostOK
  <2>3. HostOK'
    BY <1>6, <2>2 DEF Build, HostOK
  <2>4. BuiltOK'
    BY <1>6, <2>2 DEF Build, BuiltOK
  <2>5. FileOK' /\ QueueOK' /\ SettingsOK'
    BY <1>6, Zenon DEF Build, queueState, boxSettings, FileOK, QueueOK, SettingsOK
  <2> QED
    BY <2>1, <2>3, <2>4, <2>5
<1>7. ASSUME NEW e \in SendIds, ApplyReturns(e)
      PROVE  FileOK' /\ QueueOK' /\ SettingsOK' /\ HostOK' /\ FlushOK' /\ BuiltOK'
  <2> DEFINE s == IF applying = "built" THEN "done" ELSE "error"
  <2>1. status' \in Statuses
    <3>1. s \in {"none", "pending", "done", "error", "gone"} /\ status' = [status EXCEPT ![e] = s]
      BY <1>7 DEF ApplyReturns
    <3> HIDE DEF s
    <3> QED
      BY <3>1, StatusSet DEF QueueOK
  <2>2. FlushOK'
    BY <1>7 DEF ApplyReturns, FlushOK
  <2>3. SettingsOK' /\ HostOK' /\ BuiltOK'
    BY <1>7, Zenon DEF ApplyReturns, hostState, boxSettings, SettingsOK, HostOK, BuiltOK
  <2>4. FileOK' /\ QueueOK'
    <3>1. CASE UNCHANGED <<box, boxFile>>
      BY <3>1, <2>1 DEF FileOK, QueueOK
    <3>2. CASE Save(TrimDone(box, status'), status')
      <4> DEFINE b == TrimDone(box, status')
      <4>1. b \subseteq SendIds
        BY TrimKeeps DEF QueueOK
      <4> HIDE DEF b
      <4>2. Save(b, status')
        BY <3>2 DEF b
      <4> QED
        BY <2>1, <4>1, <4>2, SaveFields DEF FileOK, QueueOK
    <3> QED
      BY <1>7, <3>1, <3>2 DEF ApplyReturns
  <2> QED
    BY <2>2, <2>3, <2>4
<1>8. CASE BoxKilled
  <2>1. QueueOK'
    BY <1>8, BoxFileAfterKill DEF QueueOK, FileOK, BoxKilled
  <2>2. FlushOK'
    BY <1>8 DEF BoxKilled, FlushOK
  <2>3. BuiltOK'
    BY <1>8 DEF BoxKilled, BuiltOK
  <2>4. FileOK' /\ HostOK'
    BY <1>8, Zenon DEF BoxKilled, hostState, FileOK, HostOK
  <2>5. SettingsOK'
    BY <1>8 DEF BoxKilled, boxSettings, SettingsOK
  <2> QED
    BY <2>1, <2>2, <2>3, <2>4, <2>5
<1>9. CASE UNCHANGED boxVars
  BY <1>9, Zenon DEF boxVars, hostState, queueState, boxSettings, flushState, FileOK, QueueOK,
     SettingsOK, HostOK, FlushOK, BuiltOK
<1>10. CASE UNCHANGED boxRest /\ HostOK'
  BY <1>10, Zenon DEF boxRest, queueState, boxSettings, flushState, FileOK, QueueOK,
     SettingsOK, FlushOK, BuiltOK
<1>11. CASE HostOnline /\ UNCHANGED <<hostState, queueState, boxSettings, flushList, flushFirst,
                                      applying, builds, builtIn, boxKills>>
  <2>1. SettingsOK'
    BY <1>11 DEF HostOnline, boxSettings, SettingsOK
  <2>2. FileOK' /\ QueueOK' /\ HostOK' /\ FlushOK' /\ BuiltOK'
    BY <1>11, Zenon DEF hostState, queueState, boxSettings, FileOK, QueueOK, HostOK, FlushOK, BuiltOK
  <2> QED
    BY <2>1, <2>2
<1> QED
  BY <1>1, <1>2, <1>3, <1>4, <1>5, <1>6, <1>7, <1>8, <1>9, <1>10, <1>11, Zenon DEF BoxQueueStep, BoxNext
-----------------------------------------------------------------------------
\* What the invariant of the builds reads is as it was.
LEMMA BuildsUnread ==
ASSUME BuildsInv, UNCHANGED <<status, flushList, applying, builds, boxKills>>
PROVE  BuildsInv'
BY Zenon DEF BuildsInv, FlushWaits, MarkedBuilt, IsOldest

LEMMA BuildsStep ==
  ASSUME OutboxAssumption, SendsInv, BoxQueueStep
  PROVE  BuildsInv' /\ BuiltOncePerLife'
<1> BoxTypeOK /\ BuildsInv /\ BuiltOncePerLife
  BY DEF SendsInv, SendsAreKept
<1> FileOK /\ QueueOK /\ FlushOK /\ BuiltOK
  BY BoxTypesAre
<1>0. \A e \in SendIds : builds[e] \in Nat /\ boxKills \in Nat /\ builds[e] <= 1 + boxKills
  BY DEF BuiltOK, BuiltOncePerLife
<1>1. ASSUME NEW e \in SendIds, EnqueueSend(e)
      PROVE  BuildsInv' /\ BuiltOncePerLife'
  <2>1. status[e] = "none" /\ status'[e] = "pending" /\ \A x \in SendIds \ {e} : status'[x] = status[x]
    BY <1>1, StatusSet DEF EnqueueSend, QueueOK
  <2>2. UNCHANGED <<flushList, applying, builds, boxKills>>
    BY <1>1 DEF EnqueueSend, flushState
  <2>3. FlushWaits'
    BY <2>1, <2>2 DEF BuildsInv, FlushWaits, FlushOK
  <2>4. e \notin flushList
    BY <2>1 DEF BuildsInv, FlushWaits
  <2>5. ASSUME NEW x \in SendIds PROVE MarkedBuilt(x)'
    BY <2>1, <2>2, <2>4 DEF BuildsInv, MarkedBuilt, IsOldest
  <2> QED
    BY <2>2, <2>3, <2>5, Zenon DEF BuildsInv, BuiltOncePerLife
<1>2. CASE \/ \E gone \in SUBSET SendIds : RemoveSends(gone)
           \/ SetEnabled
           \/ UNCHANGED boxVars
           \/ UNCHANGED boxRest /\ HostOK'
           \/ HostOnline /\ UNCHANGED <<hostState, queueState, boxSettings, flushList, flushFirst,
                                        applying, builds, builtIn, boxKills>>
  <2>1. UNCHANGED <<status, flushList, applying, builds, boxKills>>
    BY <1>2, Zenon DEF RemoveSends, SetEnabled, boxVars, boxRest, queueState, flushState
  <2> QED
    BY <2>1, BuildsUnread, Zenon DEF BuiltOncePerLife
<1>3. CASE FlushAsked \/ BoxTimerFires
  <2>1. UNCHANGED <<status, builds, boxKills>> /\ StartFlush
    BY <1>3 DEF FlushAsked, BoxTimerFires, queueState
  <2>2. \/ UNCHANGED <<flushList, applying>>
        \/ flushList = {} /\ flushList' = PendingIn(box, status)
    BY <2>1 DEF StartFlush
  <2>3. CASE UNCHANGED <<flushList, applying>>
    BY <2>1, <2>3, BuildsUnread, Zenon DEF BuiltOncePerLife
  <2>4. CASE flushList = {} /\ flushList' = PendingIn(box, status)
    <3>1. FlushWaits'
      BY <2>1, <2>4 DEF FlushWaits, PendingIn
    <3>2. ASSUME NEW x \in SendIds PROVE MarkedBuilt(x)'
      BY <2>1, <2>4 DEF BuildsInv, MarkedBuilt, IsOldest
    <3> QED
      BY <2>1, <3>1, <3>2, Zenon DEF BuildsInv, BuiltOncePerLife
  <2> QED
    BY <2>2, <2>3, <2>4
<1>4. CASE BuildRefused
  <2>1. UNCHANGED <<status, flushList, builds, boxKills>> /\ applying = "sent"
    BY <1>4 DEF BuildRefused, queueState
  <2>2. \A x \in SendIds : MarkedBuilt(x)'
    BY <2>1 DEF BuildsInv, MarkedBuilt
  <2> QED
    BY <2>1, <2>2, Zenon DEF BuildsInv, FlushWaits, BuiltOncePerLife
<1>5. ASSUME NEW e \in SendIds, Build(e)
      PROVE  BuildsInv' /\ BuiltOncePerLife'
  <2>1. /\ UNCHANGED <<status, flushList, boxKills>>
        /\ applying = "sent" /\ applying' = "built" /\ IsOldest(e, flushList)
        /\ builds' = [builds EXCEPT ![e] = @ + 1]
    BY <1>5 DEF Build, queueState
  <2>2. status[e] = "pending"
    BY <2>1 DEF BuildsInv, FlushWaits, IsOldest
  <2>3. builds[e] # boxKills + 1
    BY <2>1, <2>2 DEF BuildsInv, MarkedBuilt
  <2>4. builds'[e] = builds[e] + 1 /\ \A x \in SendIds \ {e} : builds'[x] = builds[x]
    BY <2>1 DEF BuiltOK
  <2>5. FlushWaits'
    BY <2>1 DEF BuildsInv, FlushWaits
  <2>6. ASSUME NEW x \in SendIds PROVE MarkedBuilt(x)'
    BY <2>1, <2>4 DEF BuildsInv, MarkedBuilt, IsOldest
  <2>7. BuiltOncePerLife'
    BY <1>0, <2>1, <2>3, <2>4 DEF BuiltOncePerLife
  <2> QED
    BY <2>5, <2>6, <2>7 DEF BuildsInv
<1>6. ASSUME NEW e \in SendIds, ApplyReturns(e)
      PROVE  BuildsInv' /\ BuiltOncePerLife'
  <2>1. /\ UNCHANGED <<builds, boxKills>>
        /\ IsOldest(e, flushList) /\ flushList' = flushList \ {e}
    BY <1>6 DEF ApplyReturns
  <2>2. status'[e] \in {"done", "error"} /\ \A x \in SendIds \ {e} : status'[x] = status[x]
    BY <1>6 DEF ApplyReturns, QueueOK, Statuses
  <2>3. FlushWaits'
    BY <2>1, <2>2 DEF BuildsInv, FlushWaits, FlushOK
  <2>4. ASSUME NEW x \in SendIds PROVE MarkedBuilt(x)'
    <3>1. CASE x = e
      BY <2>2, <3>1 DEF MarkedBuilt
    <3>2. CASE x # e
      <4>1. ASSUME builds[x] = boxKills + 1, IsOldest(x, flushList) PROVE FALSE
        <5>1. x \in flushList /\ e \in flushList /\ x <= e /\ e <= x
          BY <2>1, <4>1 DEF IsOldest
        <5> QED
          BY <3>2, <5>1 DEF SendIds, OutboxAssumption
      <4> QED
        BY <2>1, <2>2, <3>2, <4>1 DEF BuildsInv, MarkedBuilt
    <3> QED
      BY <3>1, <3>2
  <2> QED
    BY <2>1, <2>3, <2>4, Zenon DEF BuildsInv, BuiltOncePerLife
<1>7. CASE BoxKilled
  <2>1. UNCHANGED builds /\ boxKills' = boxKills + 1 /\ flushList' = {}
    BY <1>7 DEF BoxKilled
  <2>2. FlushWaits'
    BY <2>1 DEF FlushWaits
  <2>3. \A x \in SendIds : builds'[x] < boxKills' + 1
    BY <1>0, <2>1
  <2>4. \A x \in SendIds : MarkedBuilt(x)'
    BY <1>0, <2>1, <2>3 DEF MarkedBuilt
  <2>5. BuiltOncePerLife'
    BY <1>0, <2>1 DEF BuiltOncePerLife
  <2> QED
    BY <2>2, <2>4, <2>5 DEF BuildsInv
<1> QED
  BY <1>1, <1>2, <1>3, <1>4, <1>5, <1>6, <1>7, Zenon DEF BoxQueueStep, BoxNext

\* Whatever changes the queue saves it, except a kill, which reads it back, and
\* the marks of a flush that has more to apply, which take entries off the wait.
LEMMA DiskStep ==
  ASSUME BoxTypeOK, WaitingSendsAreOnDisk, BoxQueueStep
  PROVE  WaitingSendsAreOnDisk'
<1> FileOK /\ QueueOK
  BY BoxTypesAre
<1>1. ASSUME NEW b, NEW st, Save(b, st), status' = st PROVE WaitingSendsAreOnDisk'
  BY <1>1, SaveFields DEF WaitingSendsAreOnDisk, IsPending, PendingIn
<1>2. ASSUME UNCHANGED queueState PROVE WaitingSendsAreOnDisk'
  BY <1>2, Zenon DEF queueState, WaitingSendsAreOnDisk, IsPending, PendingIn
<1>3. ASSUME NEW e \in SendIds, EnqueueSend(e) PROVE WaitingSendsAreOnDisk'
  BY <1>1, <1>3, Zenon DEF EnqueueSend
<1>4. ASSUME NEW gone \in SUBSET SendIds, RemoveSends(gone) PROVE WaitingSendsAreOnDisk'
  BY <1>1, <1>4, Zenon DEF RemoveSends
<1>5. CASE SetEnabled
  BY <1>1, <1>5, Zenon DEF SetEnabled
<1>6. ASSUME NEW e \in SendIds, ApplyReturns(e) PROVE WaitingSendsAreOnDisk'
  <2>1. CASE Save(TrimDone(box, status'), status')
    BY <1>1, <2>1, Zenon
  <2>2. CASE UNCHANGED <<box, boxFile>>
    <3>1. status'[e] \in {"done", "error"} /\ \A x \in SendIds \ {e} : status'[x] = status[x]
      BY <1>6 DEF ApplyReturns, QueueOK, Statuses
    <3> QED
      BY <2>2, <3>1 DEF WaitingSendsAreOnDisk, IsPending, PendingIn
  <2> QED
    BY <1>6, <2>1, <2>2 DEF ApplyReturns
<1>7. CASE BoxKilled
  <2>1. box' = boxFile.ids /\ boxFile' = boxFile
    BY <1>7 DEF BoxKilled
  <2> QED
    BY <1>7, <2>1, BoxFileAfterKill DEF WaitingSendsAreOnDisk, IsPending, PendingIn
<1>8. ASSUME NEW e \in SendIds, Build(e) PROVE WaitingSendsAreOnDisk'
  BY <1>2, <1>8, Zenon DEF Build
<1>9. CASE \/ FlushAsked \/ BoxTimerFires \/ BuildRefused
           \/ UNCHANGED boxVars \/ UNCHANGED boxRest
           \/ UNCHANGED <<hostState, queueState, boxSettings, flushList, flushFirst,
                          applying, builds, builtIn, boxKills>>
  BY <1>2, <1>9, Zenon DEF FlushAsked, BoxTimerFires, BuildRefused, boxVars, boxRest
<1> QED
  BY <1>3, <1>4, <1>5, <1>6, <1>7, <1>8, <1>9, Zenon DEF BoxQueueStep, BoxNext

LEMMA SendsInit ==
  ASSUME OutboxAssumption, BoxInit PROVE SendsInv
<1>1. FileOK /\ QueueOK
  BY DEF BoxInit, FileOK, QueueOK, Statuses
<1>2. SettingsOK /\ HostOK /\ FlushOK
  BY DEF BoxInit, SettingsOK, HostOK, FlushOK, UserTl
<1>3. BuiltOK
  BY DEF BoxInit, BuiltOK, UserTl
<1>4. BuildsInv
  BY DEF BoxInit, BuildsInv, FlushWaits, MarkedBuilt
<1>5. SendsAreKept
  BY DEF BoxInit, SendsAreKept, BuiltOncePerLife, WaitingSendsAreOnDisk, IsPending, PendingIn
<1> QED
  BY <1>1, <1>2, <1>3, <1>4, <1>5, BoxTypesAre DEF SendsInv

LEMMA SendsStep ==
  ASSUME OutboxAssumption, SendsInv, [PowerNext]_hostVars PROVE SendsInv'
<1>1. BoxTypeOK /\ WaitingSendsAreOnDisk /\ HostOK
  BY BoxTypesAre DEF SendsInv, SendsAreKept
<1>2. BoxQueueStep
  BY <1>1, QueueStepCases
<1>3. BoxTypeOK' /\ WaitingSendsAreOnDisk'
  BY <1>1, <1>2, BoxTypesStep, DiskStep
<1>4. BuildsInv' /\ BuiltOncePerLife'
  BY <1>2, BuildsStep
<1> QED
  BY <1>3, <1>4 DEF SendsInv, SendsAreKept

LEMMA SendsInvHolds == PowerSpec => []SendsInv
<1> USE OutboxAssumption
<1>1. PowerInit => SendsInv
  BY SendsInit DEF PowerInit
<1>2. SendsInv /\ [PowerNext]_hostVars => SendsInv'
  BY SendsStep
<1> QED
  BY <1>1, <1>2, PTL DEF PowerSpec

\* What was announced is built, once for each life of the core, and waits on disk
\* until it is, whatever flushes, kills and closings of the host come between.
THEOREM AnnouncedSendsAreKept == PowerSpec => []SendsAreKept
<1>1. SendsInv => SendsAreKept
  BY DEF SendsInv
<1> QED
  BY <1>1, SendsInvHolds, PTL
-----------------------------------------------------------------------------
\* The step of an operation says whether it closes or reopens, and a closing
\* shares no question with reconcile; whoever says that a closed host runs has
\* seen it run since.
OpsOK ==
/\ seen \in {"none", "on", "off"} /\ probing \in {"no", "on", "off"}
/\ power \in {"idle", "saving", "capturing", "confirming", "launching", "waiting"}
/\ busyKind = CASE power = "idle" -> "no"
                [] power \in {"saving", "capturing", "confirming"} -> "close"
                [] OTHER -> "reopen"
/\ busyKind = "close" => probing = "no"
PowerFlagsOK == closedHost \in BOOLEAN /\ restarting \in BOOLEAN /\ ranSince \in BOOLEAN
ChangesOK == hostChanges \in 0 .. MaxHostChanges
OfferInv ==
/\ closedHost /\ hostUp => ranSince
/\ closedHost /\ probing = "on" => ranSince
PowerInv == OpsOK /\ PowerFlagsOK /\ ChangesOK /\ OfferInv

\* The steps of an operation, of a poll and of a reconciliation.
PowerSteps ==
  \/ UNCHANGED <<hostUp, seen, powerVars>>
  \/ Poll
  \/ \E again \in BOOLEAN : CloseBegins(again)
  \/ CloseSaves \/ CloseKills \/ CloseConfirms \/ CloseFails
  \/ ReopenBegins \/ ReopenLaunches \/ ReopenEnds \/ ReopenFails
  \/ ReconcileAsks \/ ReconcileEnds
  \/ UserActs
  \/ CoreRestarts

LEMMA PowerStepCases ==
  ASSUME [PowerNext]_hostVars PROVE PowerSteps
<1>1. CASE BoxNext /\ UNCHANGED <<seen, powerVars, hostChanges>>
  <2>1. UNCHANGED hostUp
    BY <1>1, Zenon DEF BoxNext, EnqueueSend, RemoveSends, SetEnabled, FlushAsked, BoxTimerFires,
       Build, BuildRefused, ApplyReturns, hostState
  <2> QED
    BY <1>1, <2>1, Zenon DEF PowerSteps
<1>2. CASE UNCHANGED hostVars
  BY <1>2, Zenon DEF hostVars, boxVars, hostState, PowerSteps
<1> QED
  BY <1>1, <1>2, Zenon DEF PowerNext, PowerSteps

LEMMA OpsStep ==
  ASSUME OpsOK, [PowerNext]_hostVars PROVE OpsOK'
<1>1. PowerSteps
  BY PowerStepCases
<1>2. CASE UNCHANGED <<hostUp, seen, powerVars>> \/ UserActs
  BY <1>2 DEF UserActs, powerVars, OpsOK
<1>3. CASE Poll
  BY <1>3 DEF Poll, Signature, OpsOK
<1>4. CASE \E again \in BOOLEAN : CloseBegins(again)
  BY <1>4 DEF CloseBegins, PowerStep, PowerIdle, OpsOK
<1>5. CASE CloseSaves \/ CloseKills \/ CloseFails
  BY <1>5 DEF CloseSaves, CloseKills, CloseFails, PowerStep, PowerIdle, OpsOK
<1>6. CASE CloseConfirms
  BY <1>6 DEF CloseConfirms, PowerStep, PowerIdle, OpsOK
<1>7. CASE ReopenBegins \/ ReopenLaunches \/ ReopenEnds \/ ReopenFails
  BY <1>7 DEF ReopenBegins, ReopenLaunches, ReopenEnds, ReopenFails, PowerStep, PowerIdle, OpsOK
<1>8. CASE ReconcileAsks \/ ReconcileEnds \/ CoreRestarts
  BY <1>8 DEF ReconcileAsks, ReconcileEnds, CoreRestarts, PowerStep, PowerIdle, Signature, OpsOK
<1> QED
  BY <1>1, <1>2, <1>3, <1>4, <1>5, <1>6, <1>7, <1>8, Zenon DEF PowerSteps

LEMMA PowerFlagsStep ==
  ASSUME PowerFlagsOK, HostOK', [PowerNext]_hostVars PROVE PowerFlagsOK'
<1>1. PowerSteps
  BY PowerStepCases
<1>2. CASE \/ UNCHANGED <<hostUp, seen, powerVars>> \/ CloseSaves \/ CloseKills \/ CloseFails
           \/ ReopenFails \/ ReconcileAsks
  BY <1>2, Zenon DEF powerVars, CloseSaves, CloseKills, CloseFails, ReopenFails, ReconcileAsks, PowerFlagsOK
<1>3. CASE Poll
  BY <1>3 DEF Poll, PowerFlagsOK
<1>4. CASE \E again \in BOOLEAN : CloseBegins(again)
  BY <1>4 DEF CloseBegins, PowerFlagsOK
<1>5. CASE CloseConfirms \/ ReopenBegins \/ ReopenLaunches \/ ReopenEnds \/ ReconcileEnds
  BY <1>5 DEF CloseConfirms, ReopenBegins, ReopenLaunches, ReopenEnds, ReconcileEnds, PowerFlagsOK
<1>6. CASE UserActs
  BY <1>6 DEF UserActs, PowerFlagsOK
<1>7. CASE CoreRestarts
  BY <1>7 DEF CoreRestarts, PowerFlagsOK
<1> QED
  BY <1>1, <1>2, <1>3, <1>4, <1>5, <1>6, <1>7, Zenon DEF PowerSteps

LEMMA ChangesStep ==
  ASSUME PowerAssumption, ChangesOK, [PowerNext]_hostVars PROVE ChangesOK'
<1>1. CASE UserActs
  BY <1>1 DEF UserActs, ChangesOK, PowerAssumption
<1>2. CASE hostChanges' = hostChanges
  BY <1>2 DEF ChangesOK
<1>3. ASSUME ~ UserActs PROVE hostChanges' = hostChanges
  BY <1>3, Zenon DEF PowerNext, Poll, CloseBegins, CloseSaves, CloseKills, CloseConfirms, CloseFails,
     ReopenBegins, ReopenLaunches, ReopenEnds, ReopenFails, ReconcileAsks, ReconcileEnds,
     CoreRestarts, hostVars
<1> QED
  BY <1>1, <1>2, <1>3

LEMMA OfferStep ==
  ASSUME OpsOK, PowerFlagsOK, OfferInv, [PowerNext]_hostVars PROVE OfferInv'
<1>1. PowerSteps
  BY PowerStepCases
<1>2. CASE UNCHANGED <<hostUp, seen, powerVars>>
  BY <1>2, Zenon DEF powerVars, OfferInv
<1>3. CASE Poll
  BY <1>3, Zenon DEF Poll, hostState, OfferInv
<1>4. ASSUME NEW again, CloseBegins(again) PROVE OfferInv'
  <2>1. probing' = "no" /\ hostUp' = hostUp
    BY <1>4, Zenon DEF CloseBegins, boxVars, hostState
  <2>2. ~ hostUp \/ UNCHANGED <<closedHost, ranSince>>
    BY <1>4, Zenon DEF CloseBegins
  <2>3. closedHost' /\ hostUp' => ranSince'
    BY <2>1, <2>2, Zenon DEF OfferInv
  <2>4. probing' # "on"
    BY <2>1
  <2> QED
    BY <2>3, <2>4, Zenon DEF OfferInv
<1>5. CASE CloseSaves \/ CloseFails \/ ReopenBegins \/ ReopenFails
  <2>1. UNCHANGED <<hostUp, closedHost, probing, ranSince>>
    BY <1>5 DEF CloseSaves, CloseFails, ReopenBegins, ReopenFails, boxVars, hostState
  <2> QED
    BY <2>1, Zenon DEF OfferInv
<1>6. CASE CloseKills
  BY <1>6, Zenon DEF CloseKills, OfferInv
<1>7. CASE CloseConfirms
  <2>1. power = "confirming" /\ ~ hostUp /\ hostUp' = hostUp /\ probing' = probing
    BY <1>7, Zenon DEF CloseConfirms, boxVars, hostState
  <2>2. busyKind = "close"
    BY <2>1 DEF OpsOK
  <2>3. probing' # "on"
    BY <2>1, <2>2 DEF OpsOK
  <2> QED
    BY <2>1, <2>3, Zenon DEF OfferInv
<1>8. CASE ReopenLaunches
  BY <1>8, Zenon DEF ReopenLaunches, OfferInv
<1>9. CASE ReopenEnds
  BY <1>9, Zenon DEF ReopenEnds, OfferInv
<1>10. CASE ReconcileAsks
  <2>1. closedHost /\ UNCHANGED <<hostUp, closedHost, ranSince>> /\ probing' = Signature
    BY <1>10, Zenon DEF ReconcileAsks, boxVars, hostState
  <2>2. probing' = "on" => hostUp
    BY <2>1 DEF Signature
  <2> QED
    BY <2>1, <2>2, Zenon DEF OfferInv
<1>11. CASE ReconcileEnds
  <2>1. UNCHANGED <<hostUp, ranSince>> /\ probing' = "no" /\ (closedHost' => closedHost)
    BY <1>11, Zenon DEF ReconcileEnds, boxVars, hostState
  <2>2. probing' # "on"
    BY <2>1
  <2> QED
    BY <2>1, <2>2, Zenon DEF OfferInv
<1>12. CASE UserActs
  <2>1. UNCHANGED <<closedHost, probing>> /\ ranSince' = (ranSince \/ hostUp')
    BY <1>12, Zenon DEF UserActs
  <2> QED
    BY <2>1, Zenon DEF OfferInv
<1>13. CASE CoreRestarts
  <2>1. UNCHANGED <<hostUp, closedHost, ranSince>> /\ probing' = "no"
    BY <1>13, Zenon DEF CoreRestarts, BoxKilled, hostState
  <2>2. probing' # "on"
    BY <2>1
  <2> QED
    BY <2>1, <2>2, Zenon DEF OfferInv
<1> QED
  BY <1>1, <1>2, <1>3, <1>4, <1>5, <1>6, <1>7, <1>8, <1>9, <1>10, <1>11, <1>12, <1>13,
     Zenon DEF PowerSteps

LEMMA PowerStart == ASSUME PowerAssumption, PowerInit PROVE PowerInv
<1>1. OpsOK
  BY DEF PowerInit, OpsOK
<1>2. PowerFlagsOK /\ OfferInv
  BY Zenon DEF PowerInit, PowerFlagsOK, OfferInv
<1>3. ChangesOK
  BY DEF PowerInit, ChangesOK, PowerAssumption
<1> QED
  BY <1>1, <1>2, <1>3 DEF PowerInv

LEMMA PowerInvStep ==
  ASSUME PowerAssumption, PowerInv, SendsInv', [PowerNext]_hostVars PROVE PowerInv'
<1>1. HostOK'
  BY Zenon DEF SendsInv, BoxTypeOK, HostOK
<1> QED
  BY <1>1, OpsStep, PowerFlagsStep, ChangesStep, OfferStep, Zenon DEF PowerInv

LEMMA PowerInvHolds == PowerSpec => []PowerInv
<1> USE PowerAssumption
<1>1. PowerInit => PowerInv
  BY PowerStart
<1>2. PowerInv /\ SendsInv' /\ [PowerNext]_hostVars => PowerInv'
  BY PowerInvStep
<1> QED
  BY <1>1, <1>2, SendsInvHolds, PTL DEF PowerSpec

LEMMA PowerInvTypes == SendsInv /\ PowerInv => PowerTypeOK
  BY Zenon DEF SendsInv, PowerInv, PowerTypeOK, OpsOK, PowerFlagsOK, ChangesOK

\* Every variable of the queue and of the operations on the host stays in its
\* range, and the kind of an operation is that of its step.
THEOREM PowerTypes == PowerSpec => []PowerTypeOK
  BY PowerInvTypes, SendsInvHolds, PowerInvHolds, PTL

\* A host that was closed stays on offer until it has run again: neither a poll,
\* a reconciliation nor a reopening that fails takes the record of it away.
THEOREM ClosedHostsStayOnOffer == PowerSpec => ClosedHostCanBeReopened
<1>1. ASSUME PowerInv, [PowerNext]_hostVars
      PROVE  [closedHost /\ ~ closedHost' => ranSince]_hostVars
  <2> SUFFICES ASSUME closedHost, ~ closedHost' PROVE ranSince
    OBVIOUS
  <2> PowerFlagsOK /\ OpsOK /\ OfferInv
    BY <1>1 DEF PowerInv
  <2>1. PowerSteps
    BY <1>1, PowerStepCases
  <2>2. CASE Poll
    <3>1. seen' \in {Signature, "off"} /\ seen' = "on"
      BY <2>2, Zenon DEF Poll
    <3>2. hostUp
      BY <3>1 DEF Signature
    <3> QED
      BY <3>2, Zenon DEF OfferInv
  <2>3. CASE ReopenEnds
    BY <2>3, Zenon DEF ReopenEnds, OfferInv
  <2>4. CASE ReconcileEnds
    <3>1. probing \notin {"no", "off"}
      BY <2>4, Zenon DEF ReconcileEnds
    <3>2. probing = "on"
      BY <3>1 DEF OpsOK
    <3> QED
      BY <3>2, Zenon DEF OfferInv
  <2>5. CASE ~ (Poll \/ ReopenEnds \/ ReconcileEnds)
    <3>1. closedHost' = closedHost \/ closedHost'
      BY <2>1, <2>5, Zenon DEF PowerSteps, CloseBegins, CloseSaves, CloseKills, CloseConfirms,
         CloseFails, ReopenBegins, ReopenLaunches, ReopenFails, ReconcileAsks,
         UserActs, CoreRestarts, powerVars
    <3> QED
      BY <3>1
  <2> QED
    BY <2>2, <2>3, <2>4, <2>5
<1> QED
  BY <1>1, PowerInvHolds, PTL DEF PowerSpec, ClosedHostCanBeReopened
================================================================================
