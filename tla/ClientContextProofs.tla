------------------------- MODULE ClientContextProofs -------------------------
(***************************************************************************)
(* Proofs that a ClientContext implements both RequestTracker and          *)
(* ContextLifecycle: whatever its constructor, monitor, listener, flow     *)
(* controller, stats goroutine and users do, and whatever fails, is a step *)
(* that RequestTracker allows its environment, and what the callers and    *)
(* the tracker do is what ContextLifecycle expects of them, for any number *)
(* of requests, clients and users and any capacity of the channels.        *)
(***************************************************************************)
EXTENDS ClientContext, RequestTrackerCallProofs

USE ConstantsAssumption

-----------------------------------------------------------------------------
(***************************************************************************)
(* What the other goroutines keep, of which the steps follow.              *)
(***************************************************************************)

\* Nothing works on the socket before the context is constructed.
NothingEarly == initPc # "done" => monitorPc = "off" /\ outboundPc = "off"

\* The notification is sent when the socket is closed, which is not opened again.
ClosedWhenDown == shutdown => initPc = "done" /\ conn = "closed"

\* A message is written, or about to be, only under an id that has been sent.
WrittenWasSent ==
  /\ written \subseteq wire
  /\ outboundPc = "write" => encoded \in wire \/ shutdown

\* A response in the listener's hands answers a message that has been sent.
ReadWasSent == inMsg = "response" => inId \in wire

OthersInv == NothingEarly /\ ClosedWhenDown /\ WrittenWasSent /\ ReadWasSent

ContextInv == TypeOK /\ InHandMatches /\ OthersInv

LEMMA OthersInit == ContextInit => OthersInv
BY DEF ContextInit, Life!Init, Init, OthersInv, NothingEarly, ClosedWhenDown,
   WrittenWasSent, ReadWasSent

\* The callers, the timers and the tracker leave the invariant of the others alone.
LEMMA OthersPath ==
  ASSUME OthersInv, RequestPath
  PROVE  OthersInv'
<1>1. UNCHANGED <<lifeVars, idVars>>
  BY DEF RequestPath, OnContext
<1>2. UNCHANGED <<wire, shutdown>>
  <2>1. ASSUME NEW r \in Requests, OnContext(Caller(r) \/ Timer(r))
        PROVE  UNCHANGED <<wire, shutdown>>
    BY <2>1 DEF OnContext, Caller, Timer, SendRequest, CountSent, EnqueueRequest, Return,
       TimerFires, handleRequestTimeout, sharedVars
  <2>2. ASSUME OnContext(Tracker) PROVE UNCHANGED <<wire, shutdown>>
    BY <2>2 DEF OnContext, Tracker, AcceptRequest, ReceiveResponse, ReceiveTimeout,
       CountStat, Forward, Notify, TrackerStops, sharedVars
  <2>3. QED
    BY <2>1, <2>2 DEF RequestPath
<1>3. QED
  BY <1>1, <1>2 DEF OthersInv, NothingEarly, ClosedWhenDown, WrittenWasSent, ReadWasSent,
     lifeVars, idVars

\* The steps that move no message keep it.
LEMMA OthersQuiet ==
  ASSUME OthersInv, NoMessageMoves
  PROVE  OthersInv'
<1> USE DEF OthersInv, NothingEarly, ClosedWhenDown, WrittenWasSent, ReadWasSent,
        InContext, idVars
<1>1. CASE InContext(Life!Constructor)
  BY <1>1 DEF Life!Constructor, Life!Bind, Life!BindFails, Life!StartOutbound,
     Life!monitorVars, Life!diedVars, Life!closeVars, Life!listenVars
<1>2. CASE InContext(Life!TrackStat) \/ InContext(Life!StatTrackerStops)
  BY <1>2 DEF Life!TrackStat, Life!StatTrackerStops, Life!monitorVars, Life!closeVars,
     Life!listenVars
<1>3. ASSUME NEW u \in Users, InContext(Life!User(u)) PROVE OthersInv'
  BY <1>3 DEF Life!User, Life!CallShutdown, Life!ReturnFromShutdown, Life!monitorVars,
     Life!closeVars, Life!listenVars
<1>4. CASE InContext(Life!Monitor)
  BY <1>4 DEF Life!Monitor, Life!ShutdownRequested, Life!OutboundDied, Life!InboundDied,
     Life!RestartTimerFires, Life!closeConn, Life!LoopHead, Life!unchangedByMonitor,
     Life!diedVars
<1>5. CASE \/ InContext(Life!ReadFails) \/ InContext(Life!ListenCount)
           \/ InContext(Life!RouteRequest) \/ InContext(Life!RouteOther)
           \/ InContext(Life!TellOutbound)
  BY <1>5 DEF Life!ReadFails, Life!ListenCount, Life!RouteRequest, Life!RouteOther,
     Life!TellOutbound, Life!MeetOutbound, Life!ReadAgain, Life!unchangedByListener,
     Life!monitorVars, Life!closeVars
<1>6. CASE \/ InContext(Life!OutboundCount) \/ InContext(Life!OutboundStops)
           \/ InContext(Life!CloseAfterDeath)
  BY <1>6 DEF Life!OutboundCount, Life!AfterOutboundCount, Life!OutboundStops,
     Life!CloseAfterDeath, Life!closeConn, Life!unchangedByOutbound, Life!monitorVars,
     Life!closeVars, Life!listenVars
<1>7. QED
  BY <1>1, <1>2, <1>3, <1>4, <1>5, <1>6 DEF NoMessageMoves

\* So do the steps that hand a message over.
LEMMA OthersMessages ==
  ASSUME OthersInv,
         \/ \E kind \in Life!Kinds : ReadMessage(kind)
         \/ RouteResponse \/ TakeMessage \/ WriteOrFail
  PROVE  OthersInv'
<1> USE DEF OthersInv, NothingEarly, ClosedWhenDown, WrittenWasSent, ReadWasSent,
        Life!monitorVars, Life!closeVars, Life!listenVars
<1>1. ASSUME NEW kind \in Life!Kinds, ReadMessage(kind) PROVE OthersInv'
  BY <1>1 DEF ReadMessage, IdsIn, Life!ReadMessage, Life!unchangedByListener
<1>2. CASE RouteResponse
  BY <1>2 DEF RouteResponse, Life!RouteResponse, Life!ReadAgain, Life!unchangedByListener
<1>3. CASE TakeMessage
  BY <1>3 DEF TakeMessage, Life!TakeMessage, Life!unchangedByOutbound
<1>4. CASE WriteOrFail
  <2>1. CASE Life!Write
    BY <1>4, <2>1 DEF WriteOrFail, Life!Write, Life!EncodeFails, Life!WriteFails,
       Life!unchangedByOutbound
  <2>2. CASE Life!EncodeFails \/ Life!WriteFails
    BY <1>4, <2>2 DEF WriteOrFail, Life!Write, Life!EncodeFails, Life!WriteFails,
       Life!unchangedByOutbound
  <2>3. QED
    BY <1>4, <2>1, <2>2 DEF WriteOrFail
<1>5. QED
  BY <1>1, <1>2, <1>3, <1>4

LEMMA OthersStep ==
  ASSUME OthersInv, [ContextNext]_contextVars
  PROVE  OthersInv'
<1>1. CASE UNCHANGED contextVars
  BY <1>1 DEF contextVars, vars, sharedVars, lifeVars, idVars, OthersInv, NothingEarly,
     ClosedWhenDown, WrittenWasSent, ReadWasSent
<1>2. QED
  BY <1>1, OthersPath, OthersQuiet, OthersMessages DEF ContextNext

-----------------------------------------------------------------------------
(***************************************************************************)
(* Every step of the context is one of the request path, one of its        *)
(* environment, or none of its business.                                   *)
(***************************************************************************)

\* Those that move no message count, take a count, or announce the shutdown.
LEMMA QuietStep ==
  ASSUME MayShutdown, ContextInv, NoMessageMoves
  PROVE  [Next]_vars
<1> USE DEF InContext
<1>1. ASSUME UNCHANGED <<responsesFromAgents, outboundFlowControlQueue, wire>>,
             unchangedByOthers, UNCHANGED <<statIncrements, shutdown>>
      PROVE  UNCHANGED vars
  BY <1>1 DEF vars, unchangedByOthers, callVars, timerVars, resultVars, trackerVars,
     sharedVars
<1>2. CASE \/ InContext(Life!Constructor) \/ InContext(Life!StatTrackerStops)
           \/ InContext(Life!RouteOther) \/ InContext(Life!TellOutbound)
           \/ InContext(Life!ReadFails) \/ InContext(Life!RouteRequest)
           \/ InContext(Life!OutboundStops) \/ InContext(Life!CloseAfterDeath)
           \/ \E u \in Users : InContext(Life!User(u))
  <2>1. UNCHANGED <<statIncrements, shutdown>>
    BY <1>2 DEF Life!Constructor, Life!Bind, Life!BindFails, Life!StartOutbound,
       Life!StatTrackerStops, Life!RouteOther, Life!TellOutbound, Life!ReadFails,
       Life!RouteRequest, Life!OutboundStops, Life!CloseAfterDeath, Life!User,
       Life!CallShutdown, Life!ReturnFromShutdown, Life!closeVars, Life!queueVars,
       Life!unchangedByListener, Life!unchangedByOutbound
  <2>2. QED
    BY <1>1, <1>2, <2>1
<1>3. CASE InContext(Life!TrackStat)
  <2>1. TrackStat
    BY <1>3 DEF TrackStat, Life!TrackStat, Life!closeVars
  <2>2. QED
    BY <2>1 DEF Next, Environment
<1>4. CASE InContext(Life!ListenCount) \/ InContext(Life!OutboundCount)
  <2>1. OthersIncrementStat
    BY <1>4 DEF OthersIncrementStat, incrementStat, Life!ListenCount, Life!OutboundCount,
       Life!incrementStat, Life!unchangedByListener, Life!unchangedByOutbound,
       Life!closeVars
  <2>2. QED
    BY <2>1 DEF Next, Environment
<1>5. CASE InContext(Life!Monitor)
  <2>1. statIncrements' = statIncrements
    BY <1>5 DEF Life!Monitor, Life!ShutdownRequested, Life!OutboundDied, Life!InboundDied,
       Life!RestartTimerFires, Life!unchangedByMonitor, Life!queueVars
  <2>2. shutdown' = shutdown \/ shutdown' = TRUE
    BY <1>5 DEF Life!Monitor, Life!ShutdownRequested, Life!OutboundDied, Life!InboundDied,
       Life!RestartTimerFires
  <2>3. CASE shutdown' = shutdown
    BY <1>1, <1>5, <2>1, <2>3
  <2>4. CASE ~shutdown /\ shutdown' = TRUE
    <3>1. CloseInternalShutdownNotification
      BY <1>5, <2>1, <2>4 DEF CloseInternalShutdownNotification
    <3>2. QED
      BY <3>1 DEF Next, Environment
  <2>5. shutdown \in BOOLEAN
    BY DEF ContextInv, TypeOK, ChannelTypes
  <2>6. QED
    BY <2>2, <2>3, <2>4, <2>5
<1>6. QED
  BY <1>2, <1>3, <1>4, <1>5 DEF NoMessageMoves

\* Reading and writing the socket is no business of the request path; handing a
\* response over and taking a message are what it expects.
LEMMA MessageStep ==
  ASSUME ContextInv,
         \/ \E kind \in Life!Kinds : ReadMessage(kind)
         \/ RouteResponse \/ TakeMessage \/ WriteOrFail
  PROVE  [Next]_vars
<1>1. CASE (\E kind \in Life!Kinds : ReadMessage(kind)) \/ WriteOrFail
  <2>1. UNCHANGED <<statIncrements, shutdown>>
    BY <1>1 DEF ReadMessage, WriteOrFail, Life!ReadMessage, Life!Write, Life!EncodeFails,
       Life!WriteFails, Life!unchangedByListener, Life!unchangedByOutbound, Life!queueVars,
       Life!closeVars
  <2>2. /\ UNCHANGED <<responsesFromAgents, outboundFlowControlQueue, wire>>
        /\ unchangedByOthers
    BY <1>1 DEF ReadMessage, WriteOrFail
  <2>3. UNCHANGED vars
    BY <2>1, <2>2 DEF vars, unchangedByOthers, callVars, timerVars, resultVars,
       trackerVars, sharedVars
  <2>4. QED
    BY <2>3
<1>2. CASE RouteResponse
  <2>1. inId \in wire /\ inId \in Ids
    BY <1>2 DEF RouteResponse, Life!RouteResponse, Life!IsResponse, ContextInv, OthersInv,
       ReadWasSent, TypeOK, ChannelTypes
  <2>2. ResponseArrives(inId)
    BY <1>2, <2>1 DEF RouteResponse, Life!RouteResponse, ResponseArrives,
       Life!unchangedByListener, Life!closeVars
  <2>3. QED
    BY <2>1, <2>2 DEF Next, Environment
<1>3. CASE TakeMessage
  <2>1. Transmit
    BY <1>3 DEF TakeMessage, Life!TakeMessage, Transmit, Life!unchangedByOutbound,
       Life!closeVars
  <2>2. QED
    BY <2>1 DEF Next, Environment
<1>4. QED
  BY <1>1, <1>2, <1>3

\* A step of the context is a step of the request path or leaves it as it is.
LEMMA ContextStep ==
  ASSUME MayShutdown, ContextInv, [ContextNext]_contextVars
  PROVE  [Next]_vars
<1>1. CASE RequestPath
  BY <1>1 DEF RequestPath, OnContext, Next
<1>2. CASE UNCHANGED contextVars
  BY <1>2 DEF contextVars
<1>3. QED
  BY <1>1, <1>2, QuietStep, MessageStep DEF ContextNext

(***************************************************************************)
(* A ClientContext that may be shut down implements RequestTracker, so     *)
(* that what RequestTracker guarantees holds of a context with all its     *)
(* goroutines (processOutboundQueue, listen, monitor, trackRequests).      *)
(***************************************************************************)
THEOREM ContextImplementsTracker ==
  ASSUME MayShutdown
  PROVE  ContextSpec => ImplementsTracker
<1>1. ContextInit => Init /\ ContextInv
  BY TypeInit, OthersInit DEF ContextInit, ContextInv, Init, InHandMatches
<1>2. ContextInv /\ [ContextNext]_contextVars => ContextInv' /\ [Next]_vars
  BY ContextStep, OthersStep, TypeStep, InHandStep DEF ContextInv
<1>3. QED
  BY <1>1, <1>2, PTL DEF ContextSpec, ImplementsTracker, Spec

(***************************************************************************)
(* What a caller gets from the request path it gets from a whole context,  *)
(* whichever of its goroutines dies and whenever it is shut down: one      *)
(* notify() for a wait, its sends and no more, the response to its own     *)
(* request or an error, one clock, and no step but those of RequestService *)
(* (SendRequest, trackRequests, processOutboundQueue, listen, monitor).    *)
(***************************************************************************)
THEOREM ContextServesCalls ==
  ASSUME MayShutdown
  PROVE  ContextSpec => /\ [](OneNotifyPerWait /\ RetryBudget /\ OneInFlightPerClient)
                        /\ [](ResponseIsOurs /\ EitherResponseOrError /\ OneClock)
                        /\ Service!Spec
<1>1. ContextSpec => Spec
  BY ContextImplementsTracker DEF ImplementsTracker
<1>2. QED
  BY <1>1, OneNotify, Budget, OneInFlight, OurResponse, ResponseOrError, SingleClock,
     Implements, PTL

-----------------------------------------------------------------------------
(***************************************************************************)
(* The other way round: every other goroutine takes its steps from         *)
(* ContextLifecycle, and the request path does to the shared channels what *)
(* ContextLifecycle expects.                                               *)
(***************************************************************************)

\* What the request path leaves alone.
LEMMA LifeUnchanged ==
  ASSUME UNCHANGED <<lifeVars, shutdown>>
  PROVE  /\ UNCHANGED <<Life!monitorVars, Life!diedVars, Life!closeVars, Life!listenVars,
                        Life!userVars>>
         /\ UNCHANGED <<initPc, conn, outboundPc, statPc>>
BY DEF lifeVars, Life!monitorVars, Life!diedVars, Life!closeVars, Life!listenVars,
   Life!userVars

\* A caller counts its request; the rest of its steps, and the timers', are
\* hidden from the other goroutines.
LEMMA LifeCaller ==
  ASSUME TypeOK, NEW r \in Requests, OnContext(Caller(r) \/ Timer(r))
  PROVE  [Life!Next]_(Life!vars)
<1>1. CASE CountSent(r)
  <2>1. /\ incrementStat /\ UNCHANGED shutdown
        /\ UNCHANGED <<lifeTrackerPc, Len(outboundFlowControlQueue), Len(responsesFromAgents)>>
    BY <1>1 DEF CountSent, lifeTrackerPc, trackerVars
  <2>2. Life!CallerCounts
    BY <2>1, LifeUnchanged DEF OnContext, Life!CallerCounts, Life!TrackerRuns,
       Life!incrementStat, incrementStat
  <2>3. QED
    BY <2>2 DEF Life!Next
<1>2. CASE ~CountSent(r)
  <2>1. /\ UNCHANGED <<shutdown, statIncrements>>
        /\ UNCHANGED <<lifeTrackerPc, Len(outboundFlowControlQueue), Len(responsesFromAgents)>>
    BY <1>2 DEF OnContext, Caller, Timer, SendRequest, EnqueueRequest, Return, TimerFires,
       handleRequestTimeout, sharedVars, trackerVars, lifeTrackerPc
  <2>2. UNCHANGED Life!vars
    BY <2>1, LifeUnchanged DEF OnContext, Life!vars, Life!queueVars
  <2>3. QED
    BY <2>2
<1>3. QED
  BY <1>1, <1>2

\* The tracker counts, takes responses and forwards as it does there.
LEMMA LifeTracker ==
  ASSUME TypeOK, OnContext(Tracker)
  PROVE  [Life!Next]_(Life!vars)
<1> USE DEF lifeTrackerPc, Life!unchangedByTracker, Life!queueVars
<1>1. initPc = "done" /\ UNCHANGED lifeVars /\ Tracker
  BY DEF OnContext
<1>2. CASE AcceptRequest
  <2>1. Life!TakeRequestOrTimeout
    BY <1>1, <1>2, LifeUnchanged DEF AcceptRequest, Life!TakeRequestOrTimeout
  <2>2. QED
    BY <2>1 DEF Life!Next, Life!Tracker
<1>3. CASE ReceiveResponse
  <2>1. /\ Len(responsesFromAgents) > 0
        /\ Len(responsesFromAgents') = Len(responsesFromAgents) - 1
    BY <1>3 DEF ReceiveResponse, TypeOK, ChannelTypes
  <2>2. Life!TakeResponse
    BY <1>1, <1>3, <2>1, LifeUnchanged DEF ReceiveResponse, Life!TakeResponse
  <2>3. QED
    BY <2>2 DEF Life!Next, Life!Tracker
<1>4. ASSUME NEW id \in Ids, ReceiveTimeout(id) PROVE [Life!Next]_(Life!vars)
  <2>1. Life!TakeRequestOrTimeout
    BY <1>1, <1>4, LifeUnchanged DEF ReceiveTimeout, Retry, Exhaust,
       Life!TakeRequestOrTimeout
  <2>2. QED
    BY <2>1 DEF Life!Next, Life!Tracker
<1>5. CASE CountStat
  <2>1. lifeTrackerPc \in DOMAIN Life!AfterTrackerCount
          /\ lifeTrackerPc' = Life!AfterTrackerCount[lifeTrackerPc]
    BY <1>5 DEF CountStat, AfterCount, Life!AfterTrackerCount
  <2>2. Life!TrackerCount
    BY <1>1, <1>5, <2>1, LifeUnchanged DEF CountStat, Life!TrackerCount,
       Life!incrementStat, incrementStat
  <2>3. QED
    BY <2>2 DEF Life!Next, Life!Tracker
<1>6. CASE Forward
  <2>1. Len(outboundFlowControlQueue') = Len(outboundFlowControlQueue) + 1
    BY <1>6 DEF Forward, TypeOK, ChannelTypes
  <2>2. Life!Forward
    BY <1>1, <1>6, <2>1, LifeUnchanged DEF Forward, Life!Forward
  <2>3. QED
    BY <2>2 DEF Life!Next, Life!Tracker
<1>7. CASE Notify
  <2>1. UNCHANGED Life!vars
    BY <1>1, <1>7, LifeUnchanged DEF Notify, sharedVars, Life!vars
  <2>2. QED
    BY <2>1
<1>8. CASE TrackerStops
  <2>1. Life!TrackerStops
    BY <1>1, <1>8, LifeUnchanged DEF TrackerStops, sharedVars, Life!TrackerStops
  <2>2. QED
    BY <2>1 DEF Life!Next, Life!Tracker
<1>9. QED
  BY <1>1, <1>2, <1>3, <1>4, <1>5, <1>6, <1>7, <1>8 DEF Tracker

\* A step of the context is one of its life, or is hidden in the request path.
LEMMA LifeStep ==
  ASSUME TypeOK, [ContextNext]_contextVars
  PROVE  [Life!Next]_(Life!vars)
<1>1. CASE RequestPath
  BY <1>1, LifeCaller, LifeTracker DEF RequestPath
<1>2. CASE NoMessageMoves
  BY <1>2 DEF NoMessageMoves, InContext, Life!Next, Life!Listener, Life!Outbound
<1>3. CASE \/ \E kind \in Life!Kinds : ReadMessage(kind)
           \/ RouteResponse \/ TakeMessage \/ WriteOrFail
  BY <1>3 DEF ReadMessage, RouteResponse, TakeMessage, WriteOrFail, Life!Next,
     Life!Listener, Life!Outbound
<1>4. CASE UNCHANGED contextVars
  <2>1. UNCHANGED <<lifeVars, shutdown, trackerPc, statIncrements,
                    outboundFlowControlQueue, responsesFromAgents>>
    BY <1>4 DEF contextVars, vars, sharedVars, trackerVars
  <2>2. UNCHANGED Life!vars
    BY <2>1, LifeUnchanged DEF Life!vars, Life!queueVars, lifeTrackerPc
  <2>3. QED
    BY <2>2
<1>5. QED
  BY <1>1, <1>2, <1>3, <1>4 DEF ContextNext

(***************************************************************************)
(* A ClientContext implements ContextLifecycle, so that what holds of the  *)
(* goroutines and the socket whatever the tracker and the callers do holds *)
(* with the real ones (trackRequests, sendRequest).                        *)
(***************************************************************************)
THEOREM ContextImplementsLifecycle ==
  ASSUME MayShutdown
  PROVE  ContextSpec => ImplementsLifecycle
<1>1. ContextInit => Life!Init /\ ContextInv
  BY TypeInit, OthersInit DEF ContextInit, ContextInv, Init, InHandMatches
<1>2. ContextInv /\ [ContextNext]_contextVars => ContextInv' /\ [Life!Next]_(Life!vars)
  BY ContextStep, OthersStep, TypeStep, InHandStep, LifeStep DEF ContextInv
<1>3. QED
  BY <1>1, <1>2, PTL DEF ContextSpec, ImplementsLifecycle, Life!Spec
-----------------------------------------------------------------------------
(***************************************************************************)
(* What is proved of ContextLifecycle holds of a context as a whole.       *)
(***************************************************************************)

\* The proofs about ContextLifecycle, of the context as ContextLifecycle sees it.
LifeProofs ==
  INSTANCE ContextLifecycleProofs WITH
    Roles <- {"client"}, role <- "client",
    internalShutdown <- shutdown,
    trackerPc <- lifeTrackerPc,
    outboundQueue <- Len(outboundFlowControlQueue),
    responses <- Len(responsesFromAgents)

\* The two instances say the same.
LEMMA SameLifecycle ==
  /\ Life!Init <=> LifeProofs!Init
  /\ Life!Next <=> LifeProofs!Next
  /\ Life!vars = LifeProofs!vars
  /\ Life!QuietAfterShutdown <=> LifeProofs!QuietAfterShutdown
<1>1. Life!Init <=> LifeProofs!Init
  BY Zenon DEF Life!Init, LifeProofs!Init, Life!TrackerRuns,
     LifeProofs!TrackerRuns
<1>2. Life!Constructor <=> LifeProofs!Constructor
  BY Zenon DEF Life!Constructor, LifeProofs!Constructor, Life!Bind,
     LifeProofs!Bind, Life!BindFails, LifeProofs!BindFails,
     Life!StartOutbound, LifeProofs!StartOutbound, Life!monitorVars,
     LifeProofs!monitorVars, Life!diedVars, LifeProofs!diedVars,
     Life!closeVars, LifeProofs!closeVars, Life!queueVars,
     LifeProofs!queueVars, Life!userVars, LifeProofs!userVars,
     Life!listenVars, LifeProofs!listenVars
<1>3. Life!TrackStat <=> LifeProofs!TrackStat
  BY Zenon DEF Life!TrackStat, LifeProofs!TrackStat, Life!monitorVars,
     LifeProofs!monitorVars, Life!diedVars, LifeProofs!diedVars,
     Life!closeVars, LifeProofs!closeVars, Life!listenVars,
     LifeProofs!listenVars, Life!userVars, LifeProofs!userVars
<1>4. Life!StatTrackerStops <=> LifeProofs!StatTrackerStops
  BY Zenon DEF Life!StatTrackerStops, LifeProofs!StatTrackerStops,
     Life!monitorVars, LifeProofs!monitorVars, Life!diedVars,
     LifeProofs!diedVars, Life!closeVars, LifeProofs!closeVars,
     Life!listenVars, LifeProofs!listenVars, Life!queueVars,
     LifeProofs!queueVars, Life!userVars, LifeProofs!userVars
<1>5. Life!CallerCounts <=> LifeProofs!CallerCounts
  BY Zenon DEF Life!CallerCounts, LifeProofs!CallerCounts, Life!TrackerRuns,
     LifeProofs!TrackerRuns, Life!incrementStat, LifeProofs!incrementStat,
     Life!monitorVars, LifeProofs!monitorVars, Life!diedVars,
     LifeProofs!diedVars, Life!closeVars, LifeProofs!closeVars,
     Life!listenVars, LifeProofs!listenVars, Life!userVars,
     LifeProofs!userVars
<1>6. \A u : Life!User(u) <=> LifeProofs!User(u)
  BY Zenon DEF Life!User, LifeProofs!User, Life!CallShutdown,
     LifeProofs!CallShutdown, Life!ReturnFromShutdown,
     LifeProofs!ReturnFromShutdown, Life!monitorVars, LifeProofs!monitorVars,
     Life!diedVars, LifeProofs!diedVars, Life!listenVars,
     LifeProofs!listenVars, Life!queueVars, LifeProofs!queueVars,
     Life!closeVars, LifeProofs!closeVars
<1>7. Life!Monitor <=> LifeProofs!Monitor
  BY Zenon DEF Life!Monitor, LifeProofs!Monitor, Life!ShutdownRequested,
     LifeProofs!ShutdownRequested, Life!OutboundDied, LifeProofs!OutboundDied,
     Life!InboundDied, LifeProofs!InboundDied, Life!RestartTimerFires,
     LifeProofs!RestartTimerFires, Life!closeConn, LifeProofs!closeConn,
     Life!diedVars, LifeProofs!diedVars, Life!LoopHead, LifeProofs!LoopHead,
     Life!unchangedByMonitor, LifeProofs!unchangedByMonitor, Life!BothDied,
     LifeProofs!BothDied, Life!queueVars, LifeProofs!queueVars, Life!userVars,
     LifeProofs!userVars
<1>8. Life!Listener <=> LifeProofs!Listener
  BY Zenon DEF Life!Listener, LifeProofs!Listener, Life!Kinds,
     LifeProofs!Kinds, Life!ReadMessage, LifeProofs!ReadMessage,
     Life!ReadFails, LifeProofs!ReadFails, Life!ListenCount,
     LifeProofs!ListenCount, Life!RouteResponse, LifeProofs!RouteResponse,
     Life!RouteRequest, LifeProofs!RouteRequest, Life!RouteOther,
     LifeProofs!RouteOther, Life!TellOutbound, LifeProofs!TellOutbound,
     Life!queueVars, LifeProofs!queueVars, Life!unchangedByListener,
     LifeProofs!unchangedByListener, Life!AfterListenCount,
     LifeProofs!AfterListenCount, Life!incrementStat,
     LifeProofs!incrementStat, Life!ReadAgain, LifeProofs!ReadAgain,
     Life!IsResponse, LifeProofs!IsResponse, Life!TrackerRuns,
     LifeProofs!TrackerRuns, Life!HasProcessor, LifeProofs!HasProcessor,
     Life!MeetOutbound, LifeProofs!MeetOutbound, Life!monitorVars,
     LifeProofs!monitorVars, Life!diedVars, LifeProofs!diedVars,
     Life!closeVars, LifeProofs!closeVars, Life!userVars, LifeProofs!userVars
<1>9. Life!Outbound <=> LifeProofs!Outbound
  BY Zenon DEF Life!Outbound, LifeProofs!Outbound, Life!TakeMessage,
     LifeProofs!TakeMessage, Life!EncodeFails, LifeProofs!EncodeFails,
     Life!Write, LifeProofs!Write, Life!WriteFails, LifeProofs!WriteFails,
     Life!OutboundCount, LifeProofs!OutboundCount, Life!OutboundStops,
     LifeProofs!OutboundStops, Life!CloseAfterDeath,
     LifeProofs!CloseAfterDeath, Life!unchangedByOutbound,
     LifeProofs!unchangedByOutbound, Life!AfterOutboundCount,
     LifeProofs!AfterOutboundCount, Life!incrementStat,
     LifeProofs!incrementStat, Life!closeConn, LifeProofs!closeConn,
     Life!monitorVars, LifeProofs!monitorVars, Life!diedVars,
     LifeProofs!diedVars, Life!closeVars, LifeProofs!closeVars,
     Life!listenVars, LifeProofs!listenVars, Life!userVars,
     LifeProofs!userVars
<1>10. Life!Tracker <=> LifeProofs!Tracker
  BY Zenon DEF Life!Tracker, LifeProofs!Tracker, Life!TakeResponse,
     LifeProofs!TakeResponse, Life!TakeRequestOrTimeout,
     LifeProofs!TakeRequestOrTimeout, Life!TrackerCount,
     LifeProofs!TrackerCount, Life!Forward, LifeProofs!Forward,
     Life!TrackerStops, LifeProofs!TrackerStops, Life!unchangedByTracker,
     LifeProofs!unchangedByTracker, Life!queueVars, LifeProofs!queueVars,
     Life!AfterTrackerCount, LifeProofs!AfterTrackerCount, Life!incrementStat,
     LifeProofs!incrementStat, Life!monitorVars, LifeProofs!monitorVars,
     Life!diedVars, LifeProofs!diedVars, Life!closeVars, LifeProofs!closeVars,
     Life!listenVars, LifeProofs!listenVars, Life!userVars,
     LifeProofs!userVars
<1>11. Life!Next <=> LifeProofs!Next
  BY <1>2, <1>3, <1>4, <1>5, <1>6, <1>7, <1>8, <1>9, <1>10, Zenon DEF Life!Next, LifeProofs!Next
<1>12. Life!vars = LifeProofs!vars
  BY Zenon DEF Life!vars, LifeProofs!vars, Life!monitorVars,
     LifeProofs!monitorVars, Life!diedVars, LifeProofs!diedVars,
     Life!closeVars, LifeProofs!closeVars, Life!listenVars,
     LifeProofs!listenVars, Life!queueVars, LifeProofs!queueVars,
     Life!userVars, LifeProofs!userVars
<1>13. Life!QuietAfterShutdown <=> LifeProofs!QuietAfterShutdown
  BY Zenon DEF Life!QuietAfterShutdown, LifeProofs!QuietAfterShutdown,
     Life!ListenerIsDead, LifeProofs!ListenerIsDead, Life!OutboundIsDead,
     LifeProofs!OutboundIsDead, Life!closeConn, LifeProofs!closeConn
<1>14. QED
  BY <1>1, <1>11, <1>12, <1>13

(***************************************************************************)
(* Once any call of Shutdown has returned, the socket of a client context  *)
(* is closed and neither of the goroutines that use it will use it again,  *)
(* whatever the requests under way and the tracker do (Shutdown, monitor,  *)
(* listen, processOutboundQueue).                                          *)
(***************************************************************************)
THEOREM ContextQuietAfter ==
  ASSUME MayShutdown
  PROVE  ContextSpec => []Life!QuietAfterShutdown
<1>1. ContextSpec => Life!Spec
  BY ContextImplementsLifecycle DEF ImplementsLifecycle
<1>2. LifeProofs!Spec => []LifeProofs!QuietAfterShutdown
  BY LifeProofs!QuietAfter
<1>3. Life!Init => LifeProofs!Init
  BY SameLifecycle, Zenon
<1>4. [Life!Next]_(Life!vars) => [LifeProofs!Next]_(LifeProofs!vars)
  <2>1. CASE Life!Next
    BY <2>1, SameLifecycle, Zenon
  <2>2. CASE UNCHANGED Life!vars
    <3>1. UNCHANGED LifeProofs!vars
      BY <2>2, Zenon DEF Life!vars, LifeProofs!vars,
        Life!monitorVars, LifeProofs!monitorVars, Life!diedVars, LifeProofs!diedVars,
        Life!closeVars, LifeProofs!closeVars, Life!listenVars, LifeProofs!listenVars,
        Life!queueVars, LifeProofs!queueVars, Life!userVars, LifeProofs!userVars
    <3>2. QED
      BY <3>1, Zenon
  <2>3. QED
    BY <2>1, <2>2, Zenon
<1>5. LifeProofs!QuietAfterShutdown => Life!QuietAfterShutdown
  BY SameLifecycle, Zenon
<1>6. QED
  BY <1>1, <1>2, <1>3, <1>4, <1>5, PTL DEF Life!Spec, LifeProofs!Spec
=============================================================================
