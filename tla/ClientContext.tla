---------------------------- MODULE ClientContext ----------------------------
(***************************************************************************)
(* A ClientContext as a whole: the request path of RequestTracker on the   *)
(* goroutines and the socket of ContextLifecycle, which share the queues,  *)
(* the stats channel and the shutdown notification.  Each of the two       *)
(* modules stands in for the other with an environment that it assumes;    *)
(* here neither does, and both are shown to be implemented: the callers    *)
(* and the tracker take their steps from RequestTracker, every other       *)
(* goroutine from ContextLifecycle, and the messages they hand over carry  *)
(* request ids all the way.                                                *)
(***************************************************************************)
EXTENDS RequestTracker

CONSTANT Users  \* goroutines that call Shutdown

VARIABLES
  \* What ContextLifecycle adds
  initPc, conn, monitorPc, shuttingDown, restartTimer, outboundDied, inboundDied,
  externalShutdown, shutDownComplete, listenPc, inMsg, outboundPc, statPc, once, shutdownPc,
  \* The request ids on the way
  inId,      \* id in the response the listener has in hand, or NoResponse
  encoded,   \* id in the message the flow controller has in hand, or NoResponse
  written    \* ids that have been written to the socket

lifeVars ==
  <<initPc, conn, monitorPc, shuttingDown, restartTimer, outboundDied, inboundDied,
    externalShutdown, shutDownComplete, listenPc, inMsg, outboundPc, statPc, once,
    shutdownPc>>

idVars == <<inId, encoded, written>>

contextVars == <<vars, lifeVars, idVars>>

\* The tracker as ContextLifecycle sees it: notify() touches no shared channel.
lifeTrackerPc ==
  CASE trackerPc = "notify" -> "select"
    [] trackerPc \in {"countReleased", "countExhausted", "countDropped", "countUnknown"}
         -> "count"
    [] OTHER -> trackerPc

Life ==
  INSTANCE ContextLifecycle WITH
    Roles <- {"client"}, role <- "client",
    internalShutdown <- shutdown,
    trackerPc <- lifeTrackerPc,
    outboundQueue <- Len(outboundFlowControlQueue),
    responses <- Len(responsesFromAgents)

ContextInit ==
  /\ Init /\ Life!Init
  /\ inId = NoResponse /\ encoded = NoResponse /\ written = {}

-----------------------------------------------------------------------------

\* A step of the request path.  Nobody has the context before it is constructed.
OnContext(step) ==
  /\ initPc = "done"
  /\ step
  /\ UNCHANGED <<lifeVars, idVars>>

RequestPath ==
  \/ \E r \in Requests : OnContext(Caller(r) \/ Timer(r))
  \/ OnContext(Tracker)

\* A step of another goroutine that moves no message.
InContext(step) ==
  /\ UNCHANGED <<responsesFromAgents, outboundFlowControlQueue, wire, idVars>>
  /\ unchangedByOthers
  /\ step

NoMessageMoves ==
  \/ InContext(Life!Constructor)
  \/ InContext(Life!TrackStat)
  \/ InContext(Life!StatTrackerStops)
  \/ \E u \in Users : InContext(Life!User(u))
  \/ InContext(Life!Monitor)
  \/ InContext(Life!ReadFails)
  \/ InContext(Life!ListenCount)
  \/ InContext(Life!RouteRequest)
  \/ InContext(Life!RouteOther)
  \/ InContext(Life!TellOutbound)
  \/ InContext(Life!OutboundCount)
  \/ InContext(Life!OutboundStops)
  \/ InContext(Life!CloseAfterDeath)

\* A response answers a message that has been written, now or long ago.
IdsIn(kind) == IF kind = "response" THEN written ELSE {NoResponse}

ReadMessage(kind) ==
  /\ inId' \in IdsIn(kind)
  /\ UNCHANGED <<responsesFromAgents, outboundFlowControlQueue, wire, encoded, written>>
  /\ unchangedByOthers
  /\ Life!ReadMessage(kind)

RouteResponse ==
  /\ responsesFromAgents' = Append(responsesFromAgents, inId)
  /\ inId' = NoResponse
  /\ UNCHANGED <<outboundFlowControlQueue, wire, encoded, written>> /\ unchangedByOthers
  /\ Life!RouteResponse

\* The message is encoded with the id its request has by now.  RequestTracker
\* counts it as written from here on: one that fails to be is one that is lost.
TakeMessage ==
  /\ outboundFlowControlQueue # <<>>
  /\ outboundFlowControlQueue' = Tail(outboundFlowControlQueue)
  /\ encoded' = requestId[Head(outboundFlowControlQueue)]
  /\ wire' = IF shutdown THEN wire ELSE wire \union {encoded'}
  /\ UNCHANGED <<responsesFromAgents, inId, written>> /\ unchangedByOthers
  /\ Life!TakeMessage

\* The message in hand leaves the flow controller, onto the socket or not.
WriteOrFail ==
  /\ encoded' = NoResponse
  /\ UNCHANGED <<responsesFromAgents, outboundFlowControlQueue, wire, inId>>
  /\ unchangedByOthers
  /\ \/ Life!Write /\ written' = written \union {encoded}
     \/ (Life!EncodeFails \/ Life!WriteFails) /\ UNCHANGED written

ContextNext ==
  \/ RequestPath
  \/ NoMessageMoves
  \/ \E kind \in Life!Kinds : ReadMessage(kind)
  \/ RouteResponse
  \/ TakeMessage
  \/ WriteOrFail

ContextSpec == ContextInit /\ [][ContextNext]_contextVars

(***************************************************************************)
(* The fairness of the two modules (see there), for the goroutines that a  *)
(* call depends on: the caller, its timers, the tracker, the flow          *)
(* controller and the stats goroutine.  The socket may fail, datagrams     *)
(* need not come, and the listener may rest.                               *)
(***************************************************************************)
ContextFairness ==
  /\ \A r \in Requests :
       /\ SF_contextVars(OnContext(CountSent(r) \/ EnqueueRequest(r) \/ Return(r)))
       /\ WF_contextVars(OnContext(Timer(r)))
  /\ SF_contextVars(OnContext(AcceptRequest))
  /\ SF_contextVars(OnContext(\E id \in Ids : ReceiveTimeout(id)))
  /\ SF_contextVars(OnContext(CountStat \/ Forward \/ Notify))
  /\ WF_contextVars(TakeMessage)
  /\ SF_contextVars(WriteOrFail \/ InContext(Life!OutboundCount))
  /\ WF_contextVars(InContext(Life!TrackStat))

ContextFairSpec == ContextSpec /\ ContextFairness

-----------------------------------------------------------------------------

(***************************************************************************)
(* RequestTracker's environment is what the context's goroutines do: the   *)
(* flow controller takes messages and loses some, the listener hands over  *)
(* responses to messages that have been sent, both count, and the monitor  *)
(* announces a shutdown; whatever RequestTracker guarantees its callers    *)
(* holds in a ClientContext (processOutboundQueue, listen, monitor).       *)
(***************************************************************************)
ImplementsTracker == Spec

(***************************************************************************)
(* ContextLifecycle's tracker and callers are what the request path does   *)
(* to the channels it shares: it takes a response for each that was put    *)
(* there, counts as often, forwards into the queue only while there is     *)
(* room and stops only after the notification (trackRequests, sendRequest).*)
(***************************************************************************)
ImplementsLifecycle == Life!Spec

(***************************************************************************)
(* A call of SendRequest comes to an end, with a response or a timeout, as *)
(* long as the context is not shut down and its flow controller lives:     *)
(* nothing else that happens to the socket, the listener, the monitor or   *)
(* the stats channel holds it up (SendRequest, v2cClient.go:49).           *)
(***************************************************************************)
CallersAreServed ==
  \A r \in Requests :
    pc[r] = "count" ~> pc[r] = "returned" \/ shutdown \/ Life!OutboundIsDying
=============================================================================
