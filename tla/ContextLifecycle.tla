-------------------------- MODULE ContextLifecycle --------------------------
(***************************************************************************)
(* The life of an snmpContext: construction, the goroutines that read and  *)
(* write its socket, the monitor that watches them, and Shutdown.          *)
(*                                                                         *)
(* A goroutine advances by one action from one blocking point to the next: *)
(* a channel operation, a socket call, a call of incrementStat.  Messages  *)
(* are told apart by what becomes of them, queues by their length.  Of the *)
(* request tracker only what it does to the channels it shares is kept;    *)
(* RequestTracker models the rest.                                         *)
(***************************************************************************)
EXTENDS Integers

CONSTANTS
  Users,         \* goroutines that call Shutdown
  Roles,         \* kinds of context: "client" (trap receivers too) or "agent"
  maxTargets,    \* capacity of outboundFlowControlQueue
  ResponseCap,   \* capacity of responsesFromAgents (100 in the code)
  StatCap        \* capacity of statIncrementNotifications (100 in the code)

ASSUME LifecycleAssumption ==
  /\ maxTargets \in Nat \ {0}
  /\ ResponseCap \in Nat \ {0}
  /\ StatCap \in Nat \ {0}
  /\ Roles \subseteq {"client", "agent"}

VARIABLES
  role,              \* the kind of this context
  initPc,            \* the constructor: initContext and startRxAndTx
  conn,              \* the UDP socket: "none", "open" or "closed"
  \* monitor
  monitorPc,
  shuttingDown,
  restartTimer,
  outboundDied,      \* is the field a channel?  FALSE for nil
  inboundDied,
  \* Channels that carry nothing but their closing
  externalShutdown,
  internalShutdown,
  shutDownComplete,
  \* The other goroutines of the context
  listenPc,
  inMsg,             \* kind of the message the listener has in hand, or "none"
  outboundPc,
  trackerPc,
  statPc,
  \* Buffered channels, by length
  outboundQueue,     \* outboundFlowControlQueue
  responses,         \* responsesFromAgents
  statIncrements,    \* statIncrementNotifications
  \* Shutdown
  once,              \* shutdownSync: "fresh", "running" or "done"
  shutdownPc         \* where each user is in Shutdown

monitorVars == <<monitorPc, shuttingDown, restartTimer>>
diedVars    == <<outboundDied, inboundDied>>
closeVars   == <<externalShutdown, internalShutdown, shutDownComplete>>
listenVars  == <<listenPc, inMsg>>
queueVars   == <<outboundQueue, responses, statIncrements>>
userVars    == <<once, shutdownPc>>

vars == <<role, initPc, conn, monitorVars, diedVars, closeVars, listenVars, outboundPc,
          trackerPc, statPc, queueVars, userVars>>

\* What becomes of a datagram that is read: decodeMsg rejects it, or it is a
\* communityRequest, a communityResponse or a V1Trap.
Kinds == {"undecodable", "request", "response", "trap"}

\* Clients start a request tracker, agents have an incomingRequestProcessor.
TrackerRuns == role = "client"

HasProcessor == role = "agent"

Init ==
  /\ role \in Roles
  /\ initPc = "bind"
  /\ conn = "none"
  /\ monitorPc = "off" /\ shuttingDown = FALSE /\ restartTimer = FALSE
  /\ outboundDied = FALSE /\ inboundDied = TRUE
  /\ externalShutdown = FALSE /\ internalShutdown = FALSE /\ shutDownComplete = FALSE
  /\ listenPc = "off" /\ inMsg = "none"
  /\ outboundPc = "off"
  /\ trackerPc = IF TrackerRuns THEN "select" ELSE "off"
  /\ statPc = "select"
  /\ outboundQueue = 0 /\ responses = 0 /\ statIncrements = 0
  /\ once = "fresh"
  /\ shutdownPc = [u \in Users |-> "idle"]

-----------------------------------------------------------------------------
(***************************************************************************)
(* Construction.                                                           *)
(***************************************************************************)

\* startReceiver binds the port and starts the listener.
Bind ==
  /\ initPc = "bind"
  /\ conn' = "open"
  /\ listenPc' = "read"
  /\ initPc' = "startOutbound"
  /\ UNCHANGED <<role, monitorVars, diedVars, closeVars, inMsg, outboundPc, trackerPc,
                 statPc, queueVars, userVars>>

\* The port is taken: startReceiver reports the death of the receive side on
\* an unbuffered channel, before the monitor that would hear of it is started.
BindFails ==
  /\ initPc = "bind"
  /\ initPc' = "reportDeath"
  /\ UNCHANGED <<role, conn, monitorVars, diedVars, closeVars, listenVars, outboundPc,
                 trackerPc, statPc, queueVars, userVars>>

StartOutbound ==
  /\ initPc = "startOutbound"
  /\ outboundDied' = TRUE
  /\ outboundPc' = "select"
  /\ monitorPc' = "select"
  /\ initPc' = "done"
  /\ UNCHANGED <<role, conn, shuttingDown, restartTimer, inboundDied, closeVars, listenVars,
                 trackerPc, statPc, queueVars, userVars>>

-----------------------------------------------------------------------------
(***************************************************************************)
(* The stats channel.  Any goroutine that counts waits while it is full.   *)
(***************************************************************************)

\* Mutation: a notification is added to a channel that is full.
incrementStatNoWait == statIncrements' = statIncrements + 1

incrementStat ==
  /\ statIncrements < StatCap
  /\ statIncrements' = statIncrements + 1

TrackStat ==
  /\ statPc = "select"
  /\ statIncrements > 0
  /\ statIncrements' = statIncrements - 1
  /\ UNCHANGED <<role, initPc, conn, monitorVars, diedVars, closeVars, listenVars, outboundPc,
                 trackerPc, statPc, outboundQueue, responses, userVars>>

StatTrackerStops ==
  /\ statPc = "select"
  /\ internalShutdown
  /\ statPc' = "stopped"
  /\ UNCHANGED <<role, initPc, conn, monitorVars, diedVars, closeVars, listenVars, outboundPc,
                 trackerPc, queueVars, userVars>>

\* sendRequest counts the request in the goroutine of its caller, before it
\* hands it to the tracker.
CallerCounts ==
  /\ initPc = "done"
  /\ TrackerRuns
  /\ incrementStat
  /\ UNCHANGED <<role, initPc, conn, monitorVars, diedVars, closeVars, listenVars, outboundPc,
                 trackerPc, statPc, outboundQueue, responses, userVars>>

-----------------------------------------------------------------------------
(***************************************************************************)
(* Shutdown, in the goroutines of the users.                               *)
(***************************************************************************)

\* shutdownSync.Do: the first call closes externalShutdownNotification.
CallShutdown(u) ==
  /\ initPc = "done"
  /\ shutdownPc[u] = "idle"
  /\ \/ /\ once = "fresh"
        /\ once' = "running"
        /\ externalShutdown' = TRUE
        /\ shutdownPc' = [shutdownPc EXCEPT ![u] = "first"]
     \/ /\ once # "fresh"
        /\ shutdownPc' = [shutdownPc EXCEPT ![u] = "blocked"]
        /\ UNCHANGED <<once, externalShutdown>>
  /\ UNCHANGED <<role, initPc, conn, monitorVars, diedVars, internalShutdown, shutDownComplete,
                 listenVars, outboundPc, trackerPc, statPc, queueVars>>

\* The first call waits for shutDownComplete, every other call for the first.
ReturnFromShutdown(u) ==
  /\ \/ shutdownPc[u] = "first" /\ shutDownComplete /\ once' = "done"
     \/ shutdownPc[u] = "blocked" /\ once = "done" /\ UNCHANGED once
  /\ shutdownPc' = [shutdownPc EXCEPT ![u] = "returned"]
  /\ UNCHANGED <<role, initPc, conn, monitorVars, diedVars, closeVars, listenVars, outboundPc,
                 trackerPc, statPc, queueVars>>

-----------------------------------------------------------------------------
(***************************************************************************)
(* monitor.  Each case of its select ends at the head of the loop, which   *)
(* finds both channels nil once both sides have died.                      *)
(***************************************************************************)

\* Mutation: one side is taken for both.
EitherDied(out, in) == ~out \/ ~in

BothDied(out, in) == ~out /\ ~in

\* lastRestartAttempt is never set, so that the restart timer is always set
\* to run out at once.
LoopHead(armed) ==
  LET died == BothDied(outboundDied', inboundDied') IN
  /\ shutDownComplete' = (shutDownComplete \/ (died /\ shuttingDown'))
  /\ monitorPc' = IF died /\ shuttingDown' THEN "done" ELSE "select"
  /\ restartTimer' = (armed \/ (died /\ ~shuttingDown'))

unchangedByMonitor ==
  UNCHANGED <<role, initPc, inMsg, trackerPc, statPc, queueVars, userVars, externalShutdown>>

\* Mutation: the socket is left open.
LeaveConn == conn' = conn

closeConn == conn' = "closed"

ShutdownRequested ==
  /\ monitorPc = "select"
  /\ externalShutdown
  /\ ~shuttingDown  \* then externalShutdownNotification is nil
  /\ shuttingDown' = TRUE
  /\ closeConn
  /\ internalShutdown' = TRUE
  /\ UNCHANGED <<diedVars, listenPc, outboundPc>>
  /\ LoopHead(restartTimer)
  /\ unchangedByMonitor

OutboundDied ==
  /\ monitorPc = "select"
  /\ outboundPc = "reportDeath"
  /\ outboundPc' = "closeConn"
  /\ outboundDied' = FALSE
  /\ UNCHANGED <<conn, shuttingDown, internalShutdown, inboundDied, listenPc>>
  /\ LoopHead(restartTimer)
  /\ unchangedByMonitor

InboundDied ==
  /\ monitorPc = "select"
  /\ listenPc = "reportDeath"
  /\ listenPc' = "tellOutbound"
  /\ inboundDied' = FALSE
  /\ UNCHANGED <<conn, shuttingDown, internalShutdown, outboundDied, outboundPc>>
  /\ LoopHead(restartTimer)
  /\ unchangedByMonitor

\* Nothing is restarted.
RestartTimerFires ==
  /\ monitorPc = "select"
  /\ restartTimer
  /\ UNCHANGED <<conn, shuttingDown, internalShutdown, diedVars, listenPc, outboundPc>>
  /\ LoopHead(FALSE)
  /\ unchangedByMonitor

-----------------------------------------------------------------------------
(***************************************************************************)
(* listen.                                                                 *)
(***************************************************************************)

unchangedByListener ==
  UNCHANGED <<role, initPc, conn, monitorVars, diedVars, closeVars, trackerPc, statPc,
              userVars>>

\* Back to the head of its loop: the message goes out of scope.
ReadAgain == listenPc' = "read" /\ inMsg' = "none"

ReadMessage(kind) ==
  /\ listenPc = "read"
  /\ conn = "open"
  /\ inMsg' = kind
  /\ listenPc' = "countReceived"
  /\ UNCHANGED <<outboundPc, queueVars>> /\ unchangedByListener

\* The socket has been closed, or has failed.
ReadFails ==
  /\ listenPc = "read"
  /\ listenPc' = "countDeath"
  /\ UNCHANGED <<inMsg, outboundPc, queueVars>> /\ unchangedByListener

\* Where the listener goes on after each of its calls of incrementStat
\* (processIncomingMessage, recordIncomingMessage, routeIncomingMessage).
AfterListenCount ==
  [countReceived    |-> IF inMsg = "undecodable" THEN "countUndecodable" ELSE "countType",
   countUndecodable |-> "read",
   countType        |-> "route",
   countNoProcessor |-> "read",
   countDeath       |-> "reportDeath"]

ListenCount ==
  /\ listenPc \in DOMAIN AfterListenCount
  /\ incrementStat
  /\ LET next == AfterListenCount[listenPc]
     IN IF next = "read" THEN ReadAgain ELSE listenPc' = next /\ UNCHANGED inMsg
  /\ UNCHANGED <<outboundPc, outboundQueue, responses>> /\ unchangedByListener

\* Mutation: a trap falls through to the case of responses.
IsResponseOrTrap(kind) == kind \in {"response", "trap"}

IsResponse(kind) == kind = "response"

\* A response goes to the tracker.  A context without one has no channel for
\* it, and a send on a nil channel blocks for ever.
RouteResponse ==
  /\ listenPc = "route"
  /\ IsResponse(inMsg)
  /\ TrackerRuns
  /\ responses < ResponseCap
  /\ responses' = responses + 1
  /\ ReadAgain
  /\ UNCHANGED <<outboundPc, outboundQueue, statIncrements>>
  /\ unchangedByListener

\* processCommunityRequest answers on the listener's own goroutine.
RouteRequest ==
  /\ listenPc = "route"
  /\ inMsg = "request"
  /\ IF HasProcessor
     THEN /\ outboundQueue < maxTargets
          /\ outboundQueue' = outboundQueue + 1
          /\ ReadAgain
     ELSE listenPc' = "countNoProcessor" /\ UNCHANGED <<inMsg, outboundQueue>>
  /\ UNCHANGED <<outboundPc, responses, statIncrements>>
  /\ unchangedByListener

RouteOther ==
  /\ listenPc = "route"
  /\ ~IsResponse(inMsg) /\ inMsg # "request"
  /\ ReadAgain
  /\ UNCHANGED <<outboundPc, queueVars>> /\ unchangedByListener

\* Mutation: the transmit side is not told.
DieSilently == listenPc = "tellOutbound" /\ UNCHANGED outboundPc

\* The send on outboundFlowControlShutdown meets the flow controller's select.
MeetOutbound ==
  /\ listenPc = "tellOutbound"
  /\ outboundPc = "select"
  /\ outboundPc' = "reportDeath"

TellOutbound ==
  /\ MeetOutbound
  /\ listenPc' = "gone"
  /\ UNCHANGED <<inMsg, queueVars>> /\ unchangedByListener

-----------------------------------------------------------------------------
(***************************************************************************)
(* processOutboundQueue.                                                   *)
(***************************************************************************)

unchangedByOutbound ==
  UNCHANGED <<role, initPc, monitorVars, diedVars, closeVars, listenVars, trackerPc, statPc,
              responses, userVars>>

TakeMessage ==
  /\ outboundPc = "select"
  /\ outboundQueue > 0
  /\ outboundQueue' = outboundQueue - 1
  /\ outboundPc' = "write"
  /\ UNCHANGED <<conn, statIncrements>> /\ unchangedByOutbound

\* A message that cannot be encoded is skipped.
EncodeFails ==
  /\ outboundPc = "write"
  /\ outboundPc' = "select"
  /\ UNCHANGED <<conn, outboundQueue, statIncrements>> /\ unchangedByOutbound

Write ==
  /\ outboundPc = "write"
  /\ conn = "open"
  /\ outboundPc' = "countSent"
  /\ UNCHANGED <<conn, outboundQueue, statIncrements>> /\ unchangedByOutbound

WriteFails ==
  /\ outboundPc = "write"
  /\ outboundPc' = "countDeath"
  /\ UNCHANGED <<conn, outboundQueue, statIncrements>> /\ unchangedByOutbound

AfterOutboundCount == [countSent |-> "select", countDeath |-> "reportDeath"]

OutboundCount ==
  /\ outboundPc \in DOMAIN AfterOutboundCount
  /\ incrementStat
  /\ outboundPc' = AfterOutboundCount[outboundPc]
  /\ UNCHANGED <<conn, outboundQueue>> /\ unchangedByOutbound

OutboundStops ==
  /\ outboundPc = "select"
  /\ internalShutdown
  /\ outboundPc' = "reportDeath"
  /\ UNCHANGED <<conn, outboundQueue, statIncrements>> /\ unchangedByOutbound

\* The rest of its deferred function, once the monitor has heard of its death.
CloseAfterDeath ==
  /\ outboundPc = "closeConn"
  /\ closeConn
  /\ outboundPc' = "gone"
  /\ UNCHANGED <<outboundQueue, statIncrements>> /\ unchangedByOutbound

-----------------------------------------------------------------------------
(***************************************************************************)
(* trackRequests, as far as the shared channels go.                        *)
(***************************************************************************)

unchangedByTracker ==
  UNCHANGED <<role, initPc, conn, monitorVars, diedVars, closeVars, listenVars, outboundPc,
              statPc, userVars>>

TakeResponse ==
  /\ trackerPc = "select"
  /\ responses > 0
  /\ responses' = responses - 1
  /\ trackerPc' = "count"
  /\ UNCHANGED <<outboundQueue, statIncrements>> /\ unchangedByTracker

\* A new request ("countForward"), or a timeout of one to be sent again
\* ("countTimedOut") or not ("count").
TakeRequestOrTimeout ==
  /\ trackerPc = "select"
  /\ initPc = "done"  \* there is nobody to send a request before
  /\ trackerPc' \in {"countForward", "countTimedOut", "count"}
  /\ UNCHANGED queueVars /\ unchangedByTracker

AfterTrackerCount ==
  [count         |-> "select",
   countTimedOut |-> "countForward",
   countForward  |-> "forward"]

TrackerCount ==
  /\ trackerPc \in DOMAIN AfterTrackerCount
  /\ incrementStat
  /\ trackerPc' = AfterTrackerCount[trackerPc]
  /\ UNCHANGED <<outboundQueue, responses>> /\ unchangedByTracker

Forward ==
  /\ trackerPc = "forward"
  /\ outboundQueue < maxTargets
  /\ outboundQueue' = outboundQueue + 1
  /\ trackerPc' = "select"
  /\ UNCHANGED <<responses, statIncrements>> /\ unchangedByTracker

TrackerStops ==
  /\ trackerPc = "select"
  /\ internalShutdown
  /\ trackerPc' = "stopped"
  /\ UNCHANGED queueVars /\ unchangedByTracker

-----------------------------------------------------------------------------

Constructor == Bind \/ BindFails \/ StartOutbound

User(u) == CallShutdown(u) \/ ReturnFromShutdown(u)

Monitor == ShutdownRequested \/ OutboundDied \/ InboundDied \/ RestartTimerFires

Listener ==
  \/ \E kind \in Kinds : ReadMessage(kind)
  \/ ReadFails
  \/ ListenCount
  \/ RouteResponse
  \/ RouteRequest
  \/ RouteOther
  \/ TellOutbound

Outbound ==
  \/ TakeMessage
  \/ EncodeFails
  \/ Write
  \/ WriteFails
  \/ OutboundCount
  \/ OutboundStops
  \/ CloseAfterDeath

Tracker ==
  \/ TakeResponse
  \/ TakeRequestOrTimeout
  \/ TrackerCount
  \/ Forward
  \/ TrackerStops

Next ==
  \/ Constructor
  \/ TrackStat
  \/ StatTrackerStops
  \/ CallerCounts
  \/ \E u \in Users : User(u)
  \/ Monitor
  \/ Listener
  \/ Outbound
  \/ Tracker

Spec == Init /\ [][Next]_vars

(***************************************************************************)
(* Go runs every goroutine that can run (weak fairness); a select chooses  *)
(* at random among the ready cases and a channel serves blocked senders in *)
(* order (strong fairness, once for each goroutine and for each case of a  *)
(* select).  Messages need not arrive, an open socket need not fail,       *)
(* requests need not be made and Shutdown need not be called; the tracker  *)
(* and the stats goroutine need not stop after it.                         *)
(***************************************************************************)
Fairness ==
  /\ WF_vars(Constructor)
  /\ WF_vars(TrackStat)
  /\ WF_vars(\E u \in Users : ReturnFromShutdown(u))
  /\ WF_vars(ShutdownRequested) /\ WF_vars(OutboundDied) /\ WF_vars(InboundDied)
  /\ SF_vars(\/ ListenCount \/ RouteResponse \/ RouteRequest \/ RouteOther
             \/ TellOutbound \/ (conn = "closed" /\ ReadFails))
  /\ WF_vars(TakeMessage)
  /\ SF_vars(EncodeFails \/ Write \/ WriteFails \/ OutboundCount \/ CloseAfterDeath)
  /\ SF_vars(OutboundStops)
  /\ SF_vars(TakeResponse)
  /\ SF_vars(TrackerCount \/ Forward)

FairSpec == Spec /\ Fairness

-----------------------------------------------------------------------------
(***************************************************************************)
(* Properties.                                                             *)
(***************************************************************************)

ListenStates ==
  {"off", "read", "route", "reportDeath", "tellOutbound", "gone"}
    \union DOMAIN AfterListenCount

OutboundStates ==
  {"off", "select", "write", "reportDeath", "closeConn", "gone"}
    \union DOMAIN AfterOutboundCount

PcTypes ==
  /\ role \in Roles
  /\ initPc \in {"bind", "reportDeath", "startOutbound", "done"}
  /\ conn \in {"none", "open", "closed"}
  /\ monitorPc \in {"off", "select", "done"}
  /\ listenPc \in ListenStates
  /\ inMsg \in Kinds \union {"none"}
  /\ outboundPc \in OutboundStates
  /\ trackerPc \in {"off", "select", "forward", "stopped"} \union DOMAIN AfterTrackerCount
  /\ statPc \in {"select", "stopped"}
  /\ once \in {"fresh", "running", "done"}
  /\ shutdownPc \in [Users -> {"idle", "first", "blocked", "returned"}]

FlagTypes ==
  /\ shuttingDown \in BOOLEAN /\ restartTimer \in BOOLEAN
  /\ outboundDied \in BOOLEAN /\ inboundDied \in BOOLEAN
  /\ externalShutdown \in BOOLEAN /\ internalShutdown \in BOOLEAN
  /\ shutDownComplete \in BOOLEAN

QueueTypes ==
  /\ outboundQueue \in 0 .. maxTargets
  /\ responses \in 0 .. ResponseCap
  /\ statIncrements \in 0 .. StatCap

\* The values the variables take (every variable above).
TypeOK == PcTypes /\ FlagTypes /\ QueueTypes

ListenerIsDead == listenPc \in {"tellOutbound", "gone"}

OutboundIsDead == outboundPc \in {"closeConn", "gone"}

\* What the monitor knows.  QuietAfterShutdown is inductive together with it.
MonitorKnows ==
  /\ initPc # "done" =>
       outboundPc = "off" /\ monitorPc = "off" /\ ~shuttingDown /\ ~externalShutdown
  /\ initPc = "bind" => listenPc = "off"
  /\ initPc = "done" => (~outboundDied <=> OutboundIsDead)
  /\ ~inboundDied <=> ListenerIsDead
  /\ shuttingDown => conn = "closed"
  /\ shutDownComplete => initPc = "done" /\ shuttingDown /\ ~outboundDied /\ ~inboundDied
  /\ once = "done" => shutDownComplete
  /\ \A u \in Users : shutdownPc[u] = "returned" => shutDownComplete

(***************************************************************************)
(* Once any call of Shutdown has returned, first or not, the socket is     *)
(* closed and neither goroutine uses it again (monitor, Shutdown).         *)
(***************************************************************************)
QuietAfterShutdown ==
  (\E u \in Users : shutdownPc[u] = "returned") =>
    conn = "closed" /\ ListenerIsDead /\ OutboundIsDead

(***************************************************************************)
(* The death of the receive side takes the transmit side with it: "make    *)
(* sure that transmit side shuts down too" (listen, snmp.go:496).  In a    *)
(* context that is being shut down both sides are told by other means.     *)
(***************************************************************************)
InboundDeathSpreads ==
  listenPc = "reportDeath" ~> outboundPc = "gone" \/ internalShutdown

\* A listener that waits to send on a channel that is full or does not exist.
ListenerIsStuck ==
  /\ listenPc = "route"
  /\ \/ inMsg = "request" /\ HasProcessor /\ outboundQueue = maxTargets
     \/ inMsg = "response" /\ (TrackerRuns => responses = ResponseCap)

(***************************************************************************)
(* The death of the transmit side takes the receive side with it: "make    *)
(* sure that receive side shuts down too" (processOutboundQueue,           *)
(* snmp.go:443), unless the listener is stuck for good behind queues that  *)
(* nobody empties any more.                                                *)
(***************************************************************************)
OutboundDeathSpreads ==
  \/ outboundPc = "reportDeath" ~> ListenerIsDead \/ internalShutdown
  \/ <>[]ListenerIsStuck

OutboundIsDying == outboundPc \in {"countDeath", "reportDeath"} \/ OutboundIsDead

(***************************************************************************)
(* The listener comes back to the socket from every message it routes,     *)
(* however full the queues are: no circle of full channels holds it up.    *)
(* Excepted are a transmit side that dies, a shutdown, and a response sent *)
(* to a context without a request tracker (routeIncomingMessage,           *)
(* trackRequests, processOutboundQueue).                                   *)
(***************************************************************************)
RoutingEnds ==
  listenPc = "route" /\ (inMsg = "response" => TrackerRuns) ~>
    listenPc = "read" \/ OutboundIsDying \/ internalShutdown

(***************************************************************************)
(* "closing the socket should cause a socket re-initialization"            *)
(* (snmp_test.go:23): a socket that is closed is open again in the end,    *)
(* unless the context is being shut down (monitor).                        *)
(***************************************************************************)
SocketComesBack == conn = "closed" ~> conn = "open" \/ internalShutdown

\* No call of Shutdown is in progress for ever (each user makes one).
ShutdownReturns ==
  LET waiting == {u \in Users : shutdownPc[u] \in {"first", "blocked"}}
  IN waiting # {} ~> waiting = {}

(***************************************************************************)
(* Shutdown returns to every caller, unless a channel that nobody reads    *)
(* any more fills up: the stats channel, or the one the listener is        *)
(* sending on when the goroutine at its other end has stopped.             *)
(***************************************************************************)
ShutdownHangsOnlyOnFullChannel ==
  ShutdownReturns \/ <>[](statIncrements = StatCap) \/ <>[]ListenerIsStuck
=============================================================================
