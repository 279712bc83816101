----------------------------- MODULE ResolveBridge -----------------------------
(***************************************************************************)
(* The pipe to DaVinci Resolve (core/resolve-bridge.js): one Python helper *)
(* process (core/resolve_helper.py) that reads requests line by line,      *)
(* answers them in order and keeps the Resolve objects it handed out in a  *)
(* registry under numbers.                                                 *)
(*                                                                         *)
(* Operations of the application are the callers; each awaits one call at  *)
(* a time.  A helper may hang on the host's API: nothing makes it serve.   *)
(* An object of Resolve is <<helper, number>>: what the helper registered  *)
(* under that number.                                                      *)
(***************************************************************************)
EXTENDS Naturals, Sequences

CONSTANTS
    Op,         \* operations of the application
    MaxCalls,   \* bound: calls made by all operations
    MaxFaults   \* bound: helpers that die by themselves or are stopped

ASSUME BridgeAssumption == MaxCalls \in Nat /\ MaxFaults \in Nat

VARIABLES
    helpers,    \* the helper processes spawned so far
    child,      \* the current one; 0 for null
    torn,       \* `buf' holds the beginning of a line
    calls,      \* ids given out (`seq' - 1)
    call,       \* Op -> its call; "waiting" is an entry of `pending'
    faults      \* crashes and stops so far

bridgeVars == <<helpers, child, torn, calls, call, faults>>

NoCall == [state |-> "none"]
NoObject == <<0, 0>>
NewHelper == [state |-> "running", inbox |-> <<>>, outbox |-> <<>>,
              connected |-> FALSE, registry |-> {}, next |-> 1]

BridgeInit ==
    /\ helpers = <<>> /\ child = 0 /\ torn = FALSE
    /\ calls = 0 /\ call = [o \in Op |-> NoCall]
    /\ faults = 0

Waiting(o) == call[o].state = "waiting"

(* Mutation: a respawned helper's calls are numbered from one again.       *)
NextIdPerHelper == IF child = 0 THEN 1 ELSE calls + 1
NextId == calls + 1

(* ensure() and rpc(): the request is written to the current helper, even  *)
(* when that one is dead and its exit not yet known.                       *)
Rpc(o, method, target) ==
    LET running == IF child = 0 THEN Append(helpers, NewHelper) ELSE helpers
        current == IF child = 0 THEN Len(helpers) + 1 ELSE child
        request == [id |-> NextId, method |-> method, target |-> target]
    IN  /\ calls < MaxCalls
        /\ calls' = NextId
        /\ child' = current
        /\ helpers' = IF running[current].state = "running"
                      THEN [running EXCEPT ![current].inbox = Append(@, request)]
                      ELSE helpers
        /\ call' = [call EXCEPT ![o] = [state |-> "waiting", id |-> NextId,
                                        method |-> method, target |-> target]]
        /\ UNCHANGED <<torn, faults>>

-----------------------------------------------------------------------------
(* The handlers of the helper.  `target' is a registered number, 0 for the *)
(* root object, which only a helper that connected has.  "invoke" is a call*)
(* that returns a new object, "use" one that returns a scalar: its result  *)
(* names the object it was made on.                                        *)
Answer(h, request) ==
    CASE request.method = "connect" -> [connected : BOOLEAN]
      [] request.method = "reset"   -> [ok : {TRUE}]
      [] request.method = "invoke"  ->
            IF helpers[h].connected THEN [object : {<<h, helpers[h].next>>}] ELSE [error : {TRUE}]
      [] request.method = "use"     ->
            IF request.target \in helpers[h].registry
            THEN [object : {<<h, request.target>>}] ELSE [error : {TRUE}]

(* What answering a request leaves behind in the helper.                   *)
Handled(helper, request, result) ==
    CASE request.method = "connect" -> [helper EXCEPT !.connected = result.connected]
      [] request.method = "reset"   -> [helper EXCEPT !.registry = {}]
      [] request.method = "invoke" /\ helper.connected ->
            [helper EXCEPT !.registry = @ \cup {helper.next}, !.next = @ + 1]
      [] OTHER -> helper

Serve(h) ==
    /\ helpers[h].state = "running" /\ helpers[h].inbox # <<>>
    /\ LET request == Head(helpers[h].inbox)
       IN  \E result \in Answer(h, request) :
             LET line == [id |-> request.id, method |-> request.method, result |-> result]
                 after == Handled(helpers[h], request, result)
             IN  helpers' = [helpers EXCEPT ![h] =
                     [after EXCEPT !.inbox = Tail(@), !.outbox = Append(@, line)]]
    /\ UNCHANGED <<child, torn, calls, call, faults>>

TornLine == [id |-> 0]

(* The stdout handler gets what helper h wrote, also after it has died.  A *)
(* line that follows the torn end of another does not parse and is skipped.*)
Deliver(h) ==
    /\ helpers[h].outbox # <<>>
    /\ LET line == Head(helpers[h].outbox)
       IN  /\ torn' = (line = TornLine)
           /\ call' = [o \in Op |->
                 IF Waiting(o) /\ ~torn /\ line.id = call[o].id
                 THEN [state |-> "answered", method |-> call[o].method,
                       to |-> line.method, result |-> line.result]
                 ELSE call[o]]
    /\ helpers' = [helpers EXCEPT ![h].outbox = Tail(@)]
    /\ UNCHANGED <<child, calls, faults>>

(* A helper dies, possibly in the middle of writing an answer.  Only what  *)
(* it wrote is left of it.                                                 *)
Dead(h) ==
    LET corpse == [NewHelper EXCEPT !.state = "dead", !.outbox = helpers[h].outbox]
    IN  IF helpers[h].state # "running" THEN {helpers[h]}
        ELSE IF helpers[h].inbox = <<>> THEN {corpse}
        ELSE {corpse, [corpse EXCEPT !.outbox = Append(@, TornLine)]}

RejectAll == [o \in Op |-> IF Waiting(o) THEN [state |-> "rejected"] ELSE call[o]]

(* RPC_TIMEOUT_MS without an answer: reject the call, kill the helper.     *)
Timeout(o) ==
    /\ Waiting(o)
    /\ call' = [call EXCEPT ![o] = [state |-> "rejected"]]
    /\ IF child = 0 THEN UNCHANGED helpers
       ELSE \E dead \in Dead(child) : helpers' = [helpers EXCEPT ![child] = dead]
    /\ UNCHANGED <<child, torn, calls, faults>>

Crash(h) ==
    /\ faults < MaxFaults
    /\ helpers[h].state = "running"
    /\ \E dead \in Dead(h) : helpers' = [helpers EXCEPT ![h] = dead]
    /\ faults' = faults + 1
    /\ UNCHANGED <<child, torn, calls, call>>

(* The exit event of helper h: every call is rejected, whichever helper it *)
(* was written to, and there is no current helper any more.                *)
Exit(h) ==
    /\ helpers[h].state = "dead"
    /\ helpers' = [helpers EXCEPT ![h].state = "gone"]
    /\ call' = RejectAll
    /\ child' = 0
    /\ UNCHANGED <<torn, calls, faults>>

(* stop(), called before the application closes Resolve.                   *)
Stop ==
    /\ faults < MaxFaults
    /\ child # 0
    /\ \E dead \in Dead(child) : helpers' = [helpers EXCEPT ![child] = dead]
    /\ child' = 0
    /\ faults' = faults + 1
    /\ UNCHANGED <<torn, calls, call>>

BridgeStep ==
    \/ \E h \in DOMAIN helpers : Serve(h) \/ Deliver(h) \/ Crash(h) \/ Exit(h)
    \/ \E o \in Op : Timeout(o)
    \/ Stop
================================================================================
