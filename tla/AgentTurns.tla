------------------------------ MODULE AgentTurns ------------------------------
(***************************************************************************)
(* Turns of the assistant: the chat of the renderer (store/chat.ts), the   *)
(* session of the core (core/agent/session.js) with its two engines (the   *)
(* tool loop of byok/anthropic.js and byok/openai.js, and a command-line   *)
(* agent whose tools come in through toolCall of agent/index.js), and the  *)
(* permission gate (core/agent/permissions.js).                            *)
(*                                                                         *)
(* The chat and the core talk through requests, which arrive in any order, *)
(* and one stream of events.  A tool that needs the user's word waits for  *)
(* an answer; the chat has one card to ask with.  Tools that only read are *)
(* always allowed and left out.                                            *)
(***************************************************************************)
EXTENDS Naturals, Sequences, FiniteSets

CONSTANTS
  Turns,         \* the messages the user may send, each with a run id of its own
  CliTurns,      \* those answered by a command-line agent
  NoTurn,        \* null
  MaxTools,      \* how many tools may be called
  MaxSettings    \* how often the user may change a setting

ASSUME AgentAssumption == CliTurns \subseteq Turns /\ NoTurn \notin Turns /\ MaxTools \in Nat

VARIABLES
  \* the chat
  chatRunId,     \* the turn that is shown as running
  chatApproval,  \* the card: the call it asks for, if any
  answers,       \* what the user has said to which card
  \* between them
  chatRequests, chatEvents, settings,
  \* the core
  permMode, duplicateFirst,
  runs,          \* the turns that can be cancelled
  activeCliRun,
  turnStage,     \* turnStage[t]: where the engine of t is
  batch,         \* batch[t]: the tools the model asked for that are not done
  toolStage,     \* toolStage[t]: where the tool of t is
  current,       \* current[t]: that tool
  duplicated,    \* the turns that have made their copy of the timeline
  callSeq,       \* the last number given to a call that waits for an answer
  asks,          \* pending: the calls that wait
  answered       \* the calls that were answered

chatVars == <<chatRunId, chatApproval, answers>>
gateVarsOfAgent == <<permMode, duplicateFirst, callSeq, asks, answered>>
agentVars == <<chatVars, chatRequests, chatEvents, settings, gateVarsOfAgent, runs, activeCliRun,
               turnStage, batch, toolStage, current, duplicated>>
-----------------------------------------------------------------------------
Modes == {"read-only", "ask", "auto"}
Risks == {"write", "destructive"}
ToolCalls == [risk : Risks, mode : Modes, call : Nat, copy : BOOLEAN]
NoTool == [risk |-> "write", mode |-> "ask", call |-> 0, copy |-> FALSE]
NoCard == [call |-> 0, turn |-> NoTurn]

\* decide.
Decision(risk) ==
  CASE permMode = "auto" -> "allow"
    [] permMode = "read-only" -> "deny"
    [] OTHER -> IF risk = "destructive" THEN "prompt" ELSE "allow"

TellsEnd(t) == chatEvents' = Append(chatEvents, [kind |-> "done", turn |-> t, call |-> 0])
Asks(t, c) == chatEvents' = Append(chatEvents, [kind |-> "approval", turn |-> t, call |-> c])

\* The tool of t is over: the loop takes the next one, or goes back to the model.
\* A command-line agent goes on by itself.
Returned(t) ==
  /\ toolStage' = [toolStage EXCEPT ![t] = "none"]
  /\ current' = [current EXCEPT ![t] = NoTool]
  /\ IF t \in CliTurns THEN UNCHANGED <<batch, turnStage>>
     ELSE /\ batch' = [batch EXCEPT ![t] = Tail(@)]
          /\ turnStage' = [turnStage EXCEPT ![t] = IF Len(batch[t]) = 1 THEN "thinking" ELSE @]

\* Mutant: calls are numbered by how many wait.
CallNumberByQueue == Cardinality(asks) + 1

CallNumber == callSeq + 1

\* check: by the mode as it is now.
Check(t, risk, copy) ==
  LET tool == [risk |-> risk, mode |-> permMode, copy |-> copy,
               call |-> IF Decision(risk) = "prompt" THEN CallNumber ELSE 0]
  IN CASE Decision(risk) = "deny" ->
            Returned(t) /\ UNCHANGED <<callSeq, asks, chatEvents>>
       [] Decision(risk) = "allow" ->
            /\ toolStage' = [toolStage EXCEPT ![t] = "executing"]
            /\ current' = [current EXCEPT ![t] = tool]
            /\ UNCHANGED <<batch, turnStage, callSeq, asks, chatEvents>>
       [] OTHER ->
            /\ toolStage' = [toolStage EXCEPT ![t] = "asking"]
            /\ current' = [current EXCEPT ![t] = tool]
            /\ callSeq' = callSeq + 1 /\ asks' = asks \cup {CallNumber}
            /\ Asks(t, CallNumber) /\ UNCHANGED <<batch, turnStage>>
-----------------------------------------------------------------------------
AgentInit ==
  /\ chatRunId = NoTurn /\ chatApproval = NoCard /\ answers = {}
  /\ chatRequests = {} /\ chatEvents = <<>> /\ settings = 0
  /\ permMode \in Modes /\ duplicateFirst \in BOOLEAN  \* as the user has left them
  /\ callSeq = 0 /\ asks = {} /\ answered = {}
  /\ runs = {} /\ activeCliRun = NoTurn /\ duplicated = {}
  /\ turnStage = [t \in Turns |-> "none"] /\ toolStage = [t \in Turns |-> "none"]
  /\ batch = [t \in Turns |-> <<>>] /\ current = [t \in Turns |-> NoTool]

Requests(req) == chatRequests' = chatRequests \cup {req}
CoreRests == UNCHANGED <<gateVarsOfAgent, runs, activeCliRun, turnStage, batch, toolStage, current, duplicated>>
ChatRests == UNCHANGED <<chatVars, chatRequests, settings>>

\* chatSend, when no turn is shown as running.
ChatSend(t) ==
  /\ chatRunId = NoTurn /\ turnStage[t] = "none" /\ [cmd |-> "send", turn |-> t] \notin chatRequests
  /\ chatRunId' = t /\ Requests([cmd |-> "send", turn |-> t])
  /\ CoreRests /\ UNCHANGED <<chatApproval, answers, chatEvents, settings>>

\* chatCancel: the card stays where it is.
ChatCancel ==
  /\ chatRunId # NoTurn /\ chatRunId' = NoTurn
  /\ Requests([cmd |-> "cancel", turn |-> chatRunId])
  /\ CoreRests /\ UNCHANGED <<chatApproval, answers, chatEvents, settings>>

\* chatRespondApproval.
ChatRespond(allow) ==
  /\ chatApproval # NoCard /\ chatApproval' = NoCard
  /\ answers' = answers \cup {[card |-> chatApproval, allow |-> allow]}
  /\ Requests([cmd |-> "respond", call |-> chatApproval.call, allow |-> allow])
  /\ CoreRests /\ UNCHANGED <<chatRunId, chatEvents, settings>>

\* chatIngest and chatSetApproval: an approval is shown whatever turn it is for.
ChatIngests ==
  /\ chatEvents # <<>> /\ chatEvents' = Tail(chatEvents)
  /\ LET e == Head(chatEvents) IN
     /\ chatApproval' = (IF e.kind = "approval" THEN [call |-> e.call, turn |-> e.turn] ELSE chatApproval)
     /\ chatRunId' = (IF e.kind = "done" /\ e.turn = chatRunId THEN NoTurn ELSE chatRunId)
  /\ CoreRests /\ UNCHANGED <<answers, chatRequests, settings>>
-----------------------------------------------------------------------------
\* send, up to its first await.
Send(t) ==
  /\ [cmd |-> "send", turn |-> t] \in chatRequests
  /\ chatRequests' = chatRequests \ {[cmd |-> "send", turn |-> t]}
  /\ runs' = runs \cup {t} /\ turnStage' = [turnStage EXCEPT ![t] = "starting"]
  /\ UNCHANGED <<chatVars, chatEvents, settings, gateVarsOfAgent, activeCliRun, batch, toolStage,
                 current, duplicated>>

\* The engine of the turn begins, of a cancelled one too.
EngineStarts(t) ==
  /\ turnStage[t] = "starting" /\ turnStage' = [turnStage EXCEPT ![t] = "thinking"]
  /\ activeCliRun' = (IF t \in CliTurns THEN t ELSE activeCliRun)
  /\ ChatRests /\ UNCHANGED <<chatEvents, gateVarsOfAgent, runs, batch, toolStage, current, duplicated>>

\* A turn is over for the session, and the chat is told so or not (an error is only
\* shown and has no event here).
Finishes(t, told) ==
  /\ turnStage' = [turnStage EXCEPT ![t] = "ended"] /\ runs' = runs \ {t}
  /\ activeCliRun' = (IF t \in CliTurns THEN NoTurn ELSE activeCliRun)
  /\ IF told THEN TellsEnd(t) ELSE UNCHANGED chatEvents
  /\ ChatRests /\ UNCHANGED <<gateVarsOfAgent, batch, toolStage, current, duplicated>>

\* The model ends the turn, or a command-line agent that was not killed exits.
EngineEnds(t) ==
  /\ turnStage[t] = "thinking" /\ (t \in runs \/ t \in CliTurns) /\ Finishes(t, TRUE)

\* The model fails or the request is aborted: before the answer the loop tells the
\* error and no end, in the middle of it send tells that it is over.
EngineFails(t) ==
  /\ turnStage[t] = "thinking" /\ t \notin CliTurns
  /\ \E told \in BOOLEAN : Finishes(t, told)

\* The process of a cancelled turn closes.
CliCloses(t) == turnStage[t] = "killed" /\ Finishes(t, TRUE)

\* The model asks for tools, which an aborted turn no longer hears.
ModelAsks(t) ==
  /\ turnStage[t] = "thinking" /\ t \notin CliTurns /\ t \in runs
  /\ \E tools \in UNION {[1 .. n -> Risks] : n \in 1 .. 2} :
       /\ Len(tools) + callSeq <= MaxTools
       /\ batch' = [batch EXCEPT ![t] = tools]
  /\ turnStage' = [turnStage EXCEPT ![t] = "tools"]
  /\ ChatRests
  /\ UNCHANGED <<chatEvents, gateVarsOfAgent, runs, activeCliRun, toolStage, current, duplicated>>

\* runTool: before the first tool of a turn that writes, the timeline is duplicated
\* when the user wants it.
ToolStarts(t) ==
  /\ turnStage[t] = "tools" /\ toolStage[t] = "none"
  /\ LET risk == Head(batch[t]) IN
     IF duplicateFirst /\ t \notin duplicated
     THEN /\ duplicated' = duplicated \cup {t}
          /\ toolStage' = [toolStage EXCEPT ![t] = "copying"]
          /\ current' = [current EXCEPT ![t] = [NoTool EXCEPT !.risk = risk]]
          /\ UNCHANGED <<batch, turnStage, callSeq, asks, chatEvents>>
     ELSE Check(t, risk, duplicateFirst) /\ UNCHANGED duplicated
  /\ ChatRests /\ UNCHANGED <<permMode, duplicateFirst, answered, runs, activeCliRun>>

\* The copy is made, or could not be: the tool goes on.
CopyEnds(t) ==
  /\ toolStage[t] = "copying" /\ Check(t, current[t].risk, TRUE)
  /\ ChatRests /\ UNCHANGED <<permMode, duplicateFirst, answered, runs, activeCliRun, duplicated>>

\* toolCall: a command-line agent calls a tool.
CliCalls(t, risk) ==
  /\ turnStage[t] = "thinking" /\ t \in CliTurns /\ toolStage[t] = "none" /\ callSeq < MaxTools
  /\ Check(t, risk, FALSE)
  /\ ChatRests /\ UNCHANGED <<permMode, duplicateFirst, answered, runs, activeCliRun, duplicated>>

ToolEnds(t) ==
  /\ toolStage[t] = "executing" /\ Returned(t)
  /\ ChatRests
  /\ UNCHANGED <<chatEvents, gateVarsOfAgent, runs, activeCliRun, duplicated>>

\* respond: the call goes on with the answer, if it waits.
Respond(r) ==
  /\ r \in chatRequests /\ r.cmd = "respond" /\ chatRequests' = chatRequests \ {r}
  /\ asks' = asks \ {r.call} /\ answered' = (IF r.call \in asks THEN answered \cup {r.call} ELSE answered)
  /\ IF r.call \in asks
     THEN \E t \in Turns :
            /\ toolStage[t] = "asking" /\ current[t].call = r.call
            /\ IF r.allow
               THEN /\ toolStage' = [toolStage EXCEPT ![t] = "executing"]
                    /\ UNCHANGED <<batch, turnStage, current>>
               ELSE Returned(t)
     ELSE UNCHANGED <<batch, turnStage, toolStage, current>>
  /\ UNCHANGED <<chatVars, chatEvents, settings, permMode, duplicateFirst, callSeq, runs,
                 activeCliRun, duplicated>>

\* cancel: the request to the model is aborted, a process that was started is
\* killed; what waits for an answer, or is left of a batch, is not touched.
Cancel(t) ==
  /\ [cmd |-> "cancel", turn |-> t] \in chatRequests
  /\ chatRequests' = chatRequests \ {[cmd |-> "cancel", turn |-> t]}
  /\ runs' = runs \ {t}
  /\ turnStage' = [turnStage EXCEPT ![t] = IF t \in runs \cap CliTurns /\ @ = "thinking" THEN "killed" ELSE @]
  /\ IF t \in runs THEN TellsEnd(t) ELSE UNCHANGED chatEvents
  /\ UNCHANGED <<chatVars, settings, gateVarsOfAgent, activeCliRun, batch, toolStage, current, duplicated>>

\* setChatMode or setChatDuplicateFirst has reached the core: nothing in the chat
\* waits for it.
Configure(mode, copy) ==
  /\ settings < MaxSettings /\ settings' = settings + 1
  /\ permMode' = mode /\ duplicateFirst' = copy
  /\ UNCHANGED <<chatVars, chatRequests, chatEvents, callSeq, asks, answered, runs, activeCliRun,
                 turnStage, batch, toolStage, current, duplicated>>

AgentNext ==
  \/ \E t \in Turns :
       \/ ChatSend(t) \/ Send(t) \/ Cancel(t)
       \/ EngineStarts(t) \/ EngineEnds(t) \/ EngineFails(t) \/ CliCloses(t)
       \/ ModelAsks(t) \/ ToolStarts(t) \/ CopyEnds(t) \/ ToolEnds(t)
       \/ \E risk \in Risks : CliCalls(t, risk)
  \/ ChatCancel \/ ChatIngests
  \/ \E allow \in BOOLEAN : ChatRespond(allow)
  \/ \E r \in chatRequests : Respond(r)
  \/ \E mode \in Modes \ {permMode} : Configure(mode, duplicateFirst)
  \/ Configure(permMode, ~ duplicateFirst)

AgentSpec == AgentInit /\ [][AgentNext]_agentVars
-----------------------------------------------------------------------------
Cards == [call : Nat, turn : Turns]
Events == [kind : {"approval", "done"}, turn : Turns, call : Nat]
ChatCommands ==
  [cmd : {"send", "cancel"}, turn : Turns] \cup [cmd : {"respond"}, call : Nat, allow : BOOLEAN]

AgentTypeOK ==
  /\ chatRunId \in Turns \cup {NoTurn} /\ activeCliRun \in CliTurns \cup {NoTurn}
  /\ chatApproval \in Cards \cup {NoCard} /\ answers \subseteq [card : Cards, allow : BOOLEAN]
  /\ chatEvents \in Seq(Events) /\ chatRequests \subseteq ChatCommands
  /\ permMode \in Modes /\ duplicateFirst \in BOOLEAN /\ duplicated \subseteq Turns \ CliTurns
  /\ callSeq \in Nat /\ runs \subseteq Turns
  /\ turnStage \in [Turns -> {"none", "starting", "thinking", "killed", "tools", "ended"}]
  /\ toolStage \in [Turns -> {"none", "copying", "asking", "executing"}]
  /\ current \in [Turns -> ToolCalls] /\ batch \in [Turns -> Seq(Risks)]
  /\ \A t \in runs : turnStage[t] \in {"starting", "thinking", "tools"}
  /\ \A t \in Turns :
       /\ [cmd |-> "send", turn |-> t] \in chatRequests => turnStage[t] = "none"
       /\ turnStage[t] = "tools" <=> batch[t] # <<>>
       /\ t \in CliTurns => turnStage[t] # "tools"
       /\ toolStage[t] # "none" => t \in CliTurns \/ turnStage[t] = "tools"

\* No two calls wait under one number, and a call is answered once.
CallsAreToldApart ==
  LET asking == {t \in Turns : toolStage[t] = "asking"} IN
  /\ asks = {current[t].call : t \in asking} /\ asks \cap answered = {}
  /\ \A t, u \in asking : current[t].call = current[u].call => t = u

\* What runs was agreed to: nothing that changes anything was let through in
\* read-only mode; what destroys something was checked in the mode that allows
\* everything, or the user has said yes to the card of this very call; and the
\* timeline was duplicated before when that was wanted.  Turns overlap, since a
\* cancelled one goes on, and answers and settings arrive in any order.
ToolsRunAsAgreed ==
  /\ CallsAreToldApart
  /\ \A t \in Turns :
       toolStage[t] = "executing" =>
         LET tool == current[t] IN
         /\ tool.mode # "read-only"
         /\ tool.risk = "destructive" /\ tool.mode # "auto" =>
              [card |-> [call |-> tool.call, turn |-> t], allow |-> TRUE] \in answers
         /\ tool.copy => t \in duplicated
-----------------------------------------------------------------------------
\* What the code does not keep.

\* The comment of permissions.cancelAll speaks of the cancelling of a session, but
\* cancel does not call it: a call that waits can still be allowed, and the loop
\* goes on with its batch.
CancelledTurnsStop ==
  [][\A t \in Turns : turnStage[t] \notin {"none", "starting"} /\ t \notin runs /\ toolStage[t] # "executing"
       => toolStage'[t] # "executing"]_agentVars

\* A loop that fails before the answer of the model tells no end, which the chat
\* waits for.
FailedTurnsEnd ==
  \A t \in Turns :
    chatRunId = t /\ turnStage[t] = "ended" =>
      \E i \in DOMAIN chatEvents : chatEvents[i].kind = "done" /\ chatEvents[i].turn = t

\* The one card of the chat is replaced by the call of a turn that was cancelled:
\* the other is never answered, and its turn waits.
AsksAreShown ==
  \A c \in asks :
    \/ chatApproval.call = c
    \/ \E i \in DOMAIN chatEvents : chatEvents[i].kind = "approval" /\ chatEvents[i].call = c
    \/ \E r \in chatRequests : r.cmd = "respond" /\ r.call = c

\* The timeline is duplicated before the mode is asked: in read-only mode too.
ReadOnlyChangesNothing ==
  [][\A t \in Turns : toolStage[t] # "copying" /\ permMode = "read-only" => toolStage'[t] # "copying"]_agentVars

\* A cancelled turn whose process closes late takes the name from the next one,
\* whose tools then leave no trace in the chat.
CliToolsAreTraced == \A t \in CliTurns : turnStage[t] = "thinking" => activeCliRun = t
=============================================================================
