--------------------------- MODULE DiscordPresence ---------------------------
(***************************************************************************)
(* The Discord presence of the core process (core/discordRpc.js): the      *)
(* connection to the local Discord client, its probing, handshake and      *)
(* reconnection, and the throttle of what is sent through it.              *)
(*                                                                         *)
(* Discord takes one activity per window and connection, and ignores the   *)
(* others in silence.  It shows what it took last until the connection     *)
(* closes.  What the activity says is a version: every change of the open  *)
(* module, of the settings or of the artwork makes the next one.           *)
(***************************************************************************)
EXTENDS Naturals, FiniteSets

CONSTANTS
  Lines,         \* the connections there can be at a time, closing ones included
  NoLine,
  THROTTLE,      \* the window of Discord, in ticks
  MaxVersions    \* bound: how many versions there are

ASSUME PresenceAssumption ==
  /\ THROTTLE \in Nat \ {0} /\ MaxVersions \in Nat \ {0}
  /\ NoLine \notin Lines /\ IsFiniteSet(Lines)

Cleared == 0   \* the activity that clears the presence
NoTimer == THROTTLE + 1

VARIABLES
  enabled, stopped,   \* prefs.enabled, stopped
  probingPipes, probes,    \* the flag, and the probes that really are in flight
  sock, connected,
  lines,       \* lines[l]: the connection as Discord and the system see it
  handshakeOf, \* the connection the handshake timer would cut, if it is armed
  retryArmed,  \* retryTimer
  wanted,      \* the version that buildActivity gives
  since,       \* time since lastSentAt, at most the window
  pending, throttleIn  \* what is left of throttleTimer

presenceVars == <<enabled, stopped, probingPipes, probes, sock, connected, lines, handshakeOf,
                  retryArmed, wanted, since, pending, throttleIn>>
-----------------------------------------------------------------------------
\* A line is free, open, or closed with its close event still to come.
Free == [state |-> "free", discord |-> FALSE, greeted |-> FALSE, shown |-> Cleared, window |-> THROTTLE]
Closed(line) == [Free EXCEPT !.state = "closed"]
Opened == {l \in Lines : lines[l].state = "open"}
Hang(ls, l) == IF l # NoLine /\ ls[l].state = "open" THEN [ls EXCEPT ![l] = Closed(@)] ELSE ls

\* writeFrame of SET_ACTIVITY: Discord takes it if its window is open.
Delivered(ls, activity) ==
  IF sock # NoLine /\ ls[sock].state = "open" /\ ls[sock].discord /\ ls[sock].window = THROTTLE
  THEN [ls EXCEPT ![sock].shown = activity, ![sock].window = 0] ELSE ls

\* Mutation: the timer of before is left armed.
SendActivityKeepsTimer(ls, activity) ==
  /\ lines' = Delivered(ls, activity)
  /\ since' = 0 /\ pending' = FALSE /\ throttleIn' = throttleIn

\* sendActivity.  The timer in flight has a deadline that counts from a send of before.
SendActivity(ls, activity) ==
  /\ lines' = Delivered(ls, activity)
  /\ since' = 0 /\ pending' = FALSE /\ throttleIn' = NoTimer

\* push, without and with the right to send at once.
PushThrottled ==
  IF ~ connected THEN UNCHANGED <<lines, since, pending, throttleIn>>
  ELSE IF since = THROTTLE THEN SendActivity(lines, wanted')
  ELSE /\ pending' = TRUE
       /\ throttleIn' = IF throttleIn = NoTimer THEN THROTTLE - since ELSE throttleIn
       /\ UNCHANGED <<lines, since>>

\* scheduleRetry, and connect.
ScheduleRetry == retryArmed' = (retryArmed \/ (enabled /\ ~ stopped))
Connect(on) ==
  LET starts == on /\ ~ stopped /\ sock = NoLine /\ ~ probingPipes
  IN /\ probingPipes' = (probingPipes \/ starts)
     /\ probes' = IF starts THEN probes + 1 ELSE probes

\* teardown(s): a line that was replaced does not take the current one with it.
Teardown(s) ==
  IF s # NoLine /\ sock # NoLine /\ s # sock
  THEN /\ lines' = Hang(lines, s)
       /\ UNCHANGED <<handshakeOf, sock, connected, retryArmed>>
  ELSE /\ lines' = Hang(lines, sock)
       /\ handshakeOf' = NoLine /\ sock' = NoLine /\ connected' = FALSE
       /\ ScheduleRetry

\* teardownQuiet, after lines became ls.
TeardownQuiet == handshakeOf' = NoLine /\ sock' = NoLine /\ connected' = FALSE
-----------------------------------------------------------------------------
\* boot connects if the settings say so.
PresenceInit ==
  /\ enabled \in BOOLEAN /\ stopped = FALSE
  /\ probingPipes = enabled /\ probes = (IF enabled THEN 1 ELSE 0)
  /\ sock = NoLine /\ connected = FALSE
  /\ lines = [l \in Lines |-> Free] /\ handshakeOf = NoLine
  /\ retryArmed = FALSE /\ wanted = 1
  /\ since = THROTTLE /\ pending = FALSE /\ throttleIn = NoTimer

\* A pipe accepts: Discord's, or one of another program that never answers.
ProbeAccepted(l, isDiscord) ==
  /\ probes > 0 /\ lines[l].state = "free"
  /\ probes' = probes - 1 /\ probingPipes' = FALSE
  /\ IF stopped \/ ~ enabled THEN UNCHANGED <<sock, lines, handshakeOf>>
     ELSE /\ sock' = l /\ handshakeOf' = l
          /\ lines' = [lines EXCEPT ![l] = [Free EXCEPT !.state = "open", !.discord = isDiscord]]
  /\ UNCHANGED <<enabled, stopped, connected, retryArmed, wanted, since, pending, throttleIn>>

\* No pipe accepts, or nobody wants the presence any more.
ProbeEnds ==
  /\ probes > 0
  /\ probes' = probes - 1 /\ probingPipes' = FALSE
  /\ ScheduleRetry
  /\ UNCHANGED <<enabled, stopped, sock, connected, lines, handshakeOf, wanted, since,
                 pending, throttleIn>>

\* READY: what is shown at once is what is wanted now.
Ready(l) ==
  /\ lines[l].state = "open" /\ lines[l].discord /\ ~ lines[l].greeted
  /\ handshakeOf' = NoLine /\ connected' = TRUE
  /\ SendActivity([lines EXCEPT ![l].greeted = TRUE], wanted)
  /\ UNCHANGED <<enabled, stopped, probingPipes, probes, sock, retryArmed, wanted>>

\* Discord says goodbye over the line.
CloseFrame(l) ==
  /\ lines[l].state = "open" /\ lines[l].discord
  /\ Teardown(NoLine)
  /\ UNCHANGED <<enabled, stopped, probingPipes, probes, wanted, since, pending, throttleIn>>

\* Discord ends, or cuts the line.
Drops(l) ==
  /\ lines[l].state = "open"
  /\ lines' = Hang(lines, l)
  /\ UNCHANGED <<enabled, stopped, probingPipes, probes, sock, connected, handshakeOf,
                 retryArmed, wanted, since, pending, throttleIn>>

\* The close event of a line, whoever closed it.
CloseEvent(l) ==
  /\ lines[l].state = "closed"
  /\ \/ /\ sock \in {NoLine, l}
        /\ handshakeOf' = NoLine /\ sock' = NoLine /\ connected' = FALSE
        /\ ScheduleRetry
     \/ sock \notin {NoLine, l} /\ UNCHANGED <<handshakeOf, sock, connected, retryArmed>>
  /\ lines' = [lines EXCEPT ![l] = Free]
  /\ UNCHANGED <<enabled, stopped, probingPipes, probes, wanted, since, pending, throttleIn>>

HandshakeTimeout ==
  /\ handshakeOf # NoLine
  /\ IF connected THEN handshakeOf' = NoLine /\ UNCHANGED <<lines, sock, connected, retryArmed>>
     ELSE Teardown(handshakeOf)
  /\ UNCHANGED <<enabled, stopped, probingPipes, probes, wanted, since, pending, throttleIn>>

RetryTimeout ==
  /\ retryArmed /\ retryArmed' = FALSE
  /\ Connect(enabled)
  /\ UNCHANGED <<enabled, stopped, sock, connected, lines, handshakeOf, wanted, since,
                 pending, throttleIn>>

\* setContext, setPrefs but for the switch, and the artwork that is loaded.
Changes ==
  /\ wanted < MaxVersions /\ wanted' = wanted + 1
  /\ PushThrottled
  /\ UNCHANGED <<enabled, stopped, probingPipes, probes, sock, connected, handshakeOf, retryArmed>>

ThrottleTimeout ==
  /\ throttleIn = 0
  /\ IF pending /\ connected THEN SendActivity(lines, wanted)
     ELSE throttleIn' = NoTimer /\ UNCHANGED <<lines, since, pending>>
  /\ UNCHANGED <<enabled, stopped, probingPipes, probes, sock, connected, handshakeOf,
                 retryArmed, wanted>>

\* The last activity clears the presence, and then the line closes.
Clears ==
  IF connected
  THEN /\ lines' = Hang(Delivered(lines, Cleared), sock)
       /\ since' = 0 /\ pending' = FALSE /\ throttleIn' = NoTimer
  ELSE /\ lines' = Hang(lines, sock)
       /\ UNCHANGED <<since, pending, throttleIn>>

SwitchOff ==
  /\ enabled /\ enabled' = FALSE
  /\ Clears /\ TeardownQuiet /\ retryArmed' = FALSE
  /\ UNCHANGED <<stopped, probingPipes, probes, wanted>>

SwitchOn ==
  /\ ~ enabled /\ enabled' = TRUE
  /\ Connect(TRUE)
  /\ UNCHANGED <<stopped, sock, connected, lines, handshakeOf, retryArmed, wanted, since,
                 pending, throttleIn>>

\* stop, at the end of the core.
PresenceStops ==
  /\ ~ stopped /\ stopped' = TRUE
  /\ lines' = Hang(IF connected THEN Delivered(lines, Cleared) ELSE lines, sock)
  /\ since' = (IF connected THEN 0 ELSE since)
  /\ pending' = (pending /\ ~ connected)
  /\ throttleIn' = NoTimer
  /\ TeardownQuiet /\ retryArmed' = FALSE
  /\ UNCHANGED <<enabled, probingPipes, probes, wanted>>

Tick ==
  /\ since' = IF since < THROTTLE THEN since + 1 ELSE since
  /\ throttleIn' = IF throttleIn \in 1 .. THROTTLE THEN throttleIn - 1 ELSE throttleIn
  /\ lines' = [l \in Lines |->
                 IF lines[l].window < THROTTLE THEN [lines[l] EXCEPT !.window = @ + 1] ELSE lines[l]]
  /\ UNCHANGED <<enabled, stopped, probingPipes, probes, sock, connected, handshakeOf,
                 retryArmed, wanted, pending>>

PresenceNext ==
  \/ \E l \in Lines :
       \/ \E isDiscord \in BOOLEAN : ProbeAccepted(l, isDiscord)
       \/ Ready(l) \/ CloseFrame(l) \/ Drops(l) \/ CloseEvent(l)
  \/ ProbeEnds \/ HandshakeTimeout \/ RetryTimeout \/ ThrottleTimeout
  \/ Changes \/ SwitchOff \/ SwitchOn \/ PresenceStops \/ Tick

PresenceSpec == PresenceInit /\ [][PresenceNext]_presenceVars
-----------------------------------------------------------------------------
\* Every variable of the presence stays in its range.
PresenceTypeOK ==
  /\ {enabled, stopped, probingPipes, connected, retryArmed, pending} \subseteq BOOLEAN
  /\ probes \in 0 .. 1 /\ {sock, handshakeOf} \subseteq Lines \cup {NoLine}
  /\ lines \in [Lines -> [state : {"free", "open", "closed"}, discord : BOOLEAN,
                          greeted : BOOLEAN, shown : 0 .. MaxVersions, window : 0 .. THROTTLE]]
  /\ wanted \in 1 .. MaxVersions /\ since \in 0 .. THROTTLE /\ throttleIn \in 0 .. NoTimer

\* No connection is left behind that nobody holds, and none is open once the
\* presence is switched off or the core stops: what is shown goes away with it.
OnlyTheHeldLineIsOpen ==
  /\ Opened \subseteq {sock}
  /\ (stopped \/ ~ enabled) => Opened = {}

\* Discord shows what is wanted, or a send is scheduled that it will take.
PresenceFollows ==
  connected /\ lines[sock].state = "open" =>
    \/ lines[sock].shown = wanted
    \/ pending /\ throttleIn # NoTimer

\* While the presence is wanted, somebody holds a line, looks for one or will.
SomebodyReconnects ==
  enabled /\ ~ stopped => sock # NoLine \/ probingPipes \/ retryArmed

\* The presence of the core process is what the user asked for, over toggles,
\* reconnections and late events of earlier connections.
PresenceIsHonest == OnlyTheHeldLineIsOpen /\ PresenceFollows /\ SomebodyReconnects
=============================================================================
