---------------------------- MODULE ResolveHandles -----------------------------
(***************************************************************************)
(* The operations of the application over the bridge                       *)
(* (core/resolve-proxy.js and the brackets of core/rpc.js).  An operation  *)
(* calls getResolve() one or more times, takes objects and uses them.      *)
(* Whether getResolve() empties the helper's registry depends on how many  *)
(* operations are in flight and on which one it was last emptied for.      *)
(***************************************************************************)
EXTENDS ResolveBridge, FiniteSets

CONSTANTS
    Bracketed,  \* the operations that run between beginResolveOp and endResolveOp
    MaxOps      \* bound: operations begun

ASSUME HandlesAssumption == Bracketed \subseteq Op /\ MaxOps \in Nat

VARIABLES
    at,         \* Op -> where its code is
    held,       \* Op -> the object it holds
    opDepth,    \* _opDepth
    opSeq,      \* _opSeq
    resetSeq,   \* _resetSeq (one more: 0 before any operation)
    begun,      \* operations begun
    offline     \* lastFailAt is set: the last connect failed

handleVars == <<at, held, opDepth, opSeq, resetSeq, begun, offline>>
vars == <<bridgeVars, handleVars>>

Init ==
    /\ BridgeInit
    /\ at = [o \in Op |-> "idle"]
    /\ held = [o \in Op |-> NoObject]
    /\ opDepth = 0 /\ opSeq = 0 /\ resetSeq = 0 /\ begun = 0
    /\ offline = FALSE

Goto(o, place) == at' = [at EXCEPT ![o] = place]

BeginOp(o) ==
    /\ at[o] = "idle" /\ begun < MaxOps
    /\ begun' = begun + 1
    /\ Goto(o, "begun")
    /\ IF o \in Bracketed
       THEN /\ opDepth' = opDepth + 1
            /\ opSeq' = IF opDepth = 0 THEN opSeq + 1 ELSE opSeq
       ELSE UNCHANGED <<opDepth, opSeq>>
    /\ UNCHANGED <<bridgeVars, held, resetSeq, offline>>

Leave(o) ==
    /\ at[o] \in {"begun", "ready", "failed"}
    /\ Goto(o, "idle")
    /\ held' = [held EXCEPT ![o] = NoObject]
    /\ UNCHANGED <<bridgeVars, opSeq, resetSeq, begun, offline>>

(* The operation returns or throws; the bracket ends in `finally'.         *)
EndOp(o) ==
    /\ Leave(o)
    /\ opDepth' = IF o \in Bracketed /\ opDepth > 0 THEN opDepth - 1 ELSE opDepth

(* getResolve(): connect first; for a while after a connect that failed,   *)
(* the answer is "not connected" without a call.                           *)
GetResolve(o) ==
    /\ at[o] \in {"begun", "ready"}
    /\ \/ Rpc(o, "connect", 0) /\ Goto(o, "connecting")
       \/ offline /\ Goto(o, "failed") /\ UNCHANGED bridgeVars
    /\ UNCHANGED <<held, opDepth, opSeq, resetSeq, begun, offline>>

Settled(o) == call[o].state \in {"answered", "rejected"}
Consume(o) ==
    /\ call' = [call EXCEPT ![o] = NoCall]
    /\ UNCHANGED <<helpers, child, torn, calls, faults>>

(* Mutation: the registry is emptied on every call that is alone.          *)
MustResetAlways == opDepth <= 1
MustReset == opDepth = 0 \/ (opDepth = 1 /\ resetSeq # opSeq)

(* ... then empty the registry, or not, by the depth as it is now.         *)
AfterConnect(o) ==
    /\ at[o] = "connecting" /\ Settled(o)
    /\ offline' = (call[o].state = "rejected" \/ call[o].result = [connected |-> FALSE])
    /\ IF offline'
       THEN Consume(o) /\ Goto(o, "failed")
       ELSE IF MustReset
       THEN /\ Rpc(o, "reset", 0)
            /\ Goto(o, IF opDepth = 0 THEN "clearing" ELSE "resetting")
       ELSE Consume(o) /\ Goto(o, "ready")
    /\ UNCHANGED <<held, opDepth, opSeq, resetSeq, begun>>

AfterReset(o) ==
    /\ at[o] \in {"clearing", "resetting"} /\ Settled(o)
    /\ Consume(o)
    /\ Goto(o, IF call[o].state = "answered" THEN "ready" ELSE "failed")
    /\ resetSeq' = IF at[o] = "resetting" /\ call[o].state = "answered" THEN opSeq ELSE resetSeq
    /\ UNCHANGED <<held, opDepth, opSeq, begun, offline>>

(* The operation asks the root object for another one, or calls a method   *)
(* of the one it holds.                                                    *)
Take(o) ==
    /\ at[o] = "ready" /\ held[o] = NoObject
    /\ Rpc(o, "invoke", 0)
    /\ Goto(o, "calling")
    /\ UNCHANGED <<held, opDepth, opSeq, resetSeq, begun, offline>>

Use(o) ==
    /\ at[o] = "ready" /\ held[o] # NoObject
    /\ Rpc(o, "use", held[o][2])
    /\ Goto(o, "calling")
    /\ UNCHANGED <<held, opDepth, opSeq, resetSeq, begun, offline>>

AfterCall(o) ==
    /\ at[o] = "calling" /\ Settled(o)
    /\ Consume(o)
    /\ IF call[o].state = "rejected" \/ "object" \notin DOMAIN call[o].result
       THEN Goto(o, "failed") /\ UNCHANGED held
       ELSE /\ Goto(o, "ready")
            /\ held' = IF call[o].method = "invoke"
                       THEN [held EXCEPT ![o] = call[o].result.object] ELSE held
    /\ UNCHANGED <<opDepth, opSeq, resetSeq, begun, offline>>

OpStep(o) ==
    \/ BeginOp(o) \/ EndOp(o) \/ GetResolve(o) \/ AfterConnect(o) \/ AfterReset(o)
    \/ Take(o) \/ Use(o) \/ AfterCall(o)

Next ==
    \/ \E o \in Op : OpStep(o)
    \/ BridgeStep /\ UNCHANGED handleVars

Spec == Init /\ [][Next]_vars

-----------------------------------------------------------------------------
Object == Nat \X Nat
Request == [id : 1 .. MaxCalls, method : {"connect", "reset", "invoke", "use"}, target : Nat]
Result == [connected : BOOLEAN] \cup [ok : {TRUE}] \cup [object : Object] \cup [error : {TRUE}]
Line == {TornLine} \cup
    [id : 1 .. MaxCalls, method : {"connect", "reset", "invoke", "use"}, result : Result]
HelperOK(helper) ==
    /\ helper.state \in {"running", "dead", "gone"}
    /\ \A k \in DOMAIN helper.inbox : helper.inbox[k] \in Request
    /\ \A k \in DOMAIN helper.outbox : helper.outbox[k] \in Line
    /\ helper.connected \in BOOLEAN
    /\ helper.next \in Nat \ {0} /\ helper.registry \subseteq 1 .. helper.next - 1

(* Every variable stays in its range, the depth counts the bracketed       *)
(* operations in flight, and an operation that waits has a call.           *)
TypeOK ==
    /\ \A h \in DOMAIN helpers : HelperOK(helpers[h])
    /\ child \in 0 .. Len(helpers)
    /\ torn \in BOOLEAN
    /\ calls \in 0 .. MaxCalls /\ faults \in 0 .. MaxFaults
    /\ held \in [Op -> Object]
    /\ opDepth = Cardinality({o \in Bracketed : at[o] # "idle"})
    /\ offline \in BOOLEAN
    /\ resetSeq <= opSeq /\ opSeq <= begun /\ begun <= MaxOps
    /\ \A o \in Op : at[o] \in {"idle", "begun", "ready", "failed"} <=> call[o] = NoCall

(* What a caller is given is the answer to its own request, whatever dead  *)
(* helpers still have in their pipes (resolve-bridge.js, ids of rpc).      *)
AnswersMatch ==
    \A o \in Op : call[o].state = "answered" => call[o].to = call[o].method

(* The objects a bracketed operation holds stay registered while the       *)
(* helper lives (resolve-proxy.js, docs/invariants.md "purged ONCE per     *)
(* operation").                                                            *)
HandlesStayValid ==
    \A o \in Bracketed :
        held[o] # NoObject /\ helpers[held[o][1]].state = "running" =>
            held[o][2] \in helpers[held[o][1]].registry

(* No helper runs that the bridge does not know of: nothing would ever     *)
(* kill it (resolve-bridge.js "respawn propre").                           *)
OneHelper == \A h \in DOMAIN helpers : helpers[h].state = "running" => h = child
================================================================================
