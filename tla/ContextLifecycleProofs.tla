----------------------- MODULE ContextLifecycleProofs -----------------------
(***************************************************************************)
(* Proof that Shutdown returns to nobody before the socket is closed and   *)
(* both goroutines that use it are through with it, for contexts of every  *)
(* kind, any number of users and any capacity of the channels, whatever    *)
(* fails.                                                                  *)
(***************************************************************************)
EXTENDS ContextLifecycle, TLAPS

USE LifecycleAssumption

-----------------------------------------------------------------------------

\* Program counters, flags and queues keep their types.
LEMMA PcStep == TypeOK /\ [Next]_vars => PcTypes'
<1> SUFFICES ASSUME PcTypes, [Next]_vars PROVE PcTypes'
  BY DEF TypeOK
<1> USE DEF PcTypes, ListenStates, OutboundStates, AfterListenCount, AfterOutboundCount,
        AfterTrackerCount, monitorVars, listenVars, userVars
<1>1. CASE Constructor
  BY <1>1 DEF Constructor, Bind, BindFails, StartOutbound
<1>2. CASE TrackStat \/ StatTrackerStops \/ CallerCounts
  BY <1>2 DEF TrackStat, StatTrackerStops, CallerCounts
<1>3. ASSUME NEW u \in Users, User(u) PROVE PcTypes'
  BY <1>3 DEF User, CallShutdown, ReturnFromShutdown
<1>4. CASE Monitor
  BY <1>4 DEF Monitor, ShutdownRequested, OutboundDied, InboundDied, RestartTimerFires,
     LoopHead, unchangedByMonitor, closeConn
<1>5. CASE Listener
  BY <1>5 DEF Listener, ReadMessage, ReadFails, ListenCount, RouteResponse, RouteRequest,
     RouteOther, ReadAgain, TellOutbound, MeetOutbound, unchangedByListener
<1>6. CASE Outbound
  BY <1>6 DEF Outbound, TakeMessage, EncodeFails, Write, WriteFails, OutboundCount,
     OutboundStops, CloseAfterDeath, closeConn, unchangedByOutbound
<1>7. CASE Tracker
  BY <1>7 DEF Tracker, TakeResponse, TakeRequestOrTimeout, TrackerCount, Forward,
     TrackerStops, unchangedByTracker
<1>8. CASE UNCHANGED vars
  BY <1>8 DEF vars
<1>9. QED
  BY <1>1, <1>2, <1>3, <1>4, <1>5, <1>6, <1>7, <1>8 DEF Next

LEMMA FlagStep == TypeOK /\ [Next]_vars => FlagTypes'
<1> SUFFICES ASSUME FlagTypes, [Next]_vars PROVE FlagTypes'
  BY DEF TypeOK
<1> USE DEF FlagTypes, monitorVars, diedVars, closeVars
<1>1. CASE Constructor
  BY <1>1 DEF Constructor, Bind, BindFails, StartOutbound
<1>2. CASE TrackStat \/ StatTrackerStops \/ CallerCounts
  BY <1>2 DEF TrackStat, StatTrackerStops, CallerCounts
<1>3. ASSUME NEW u \in Users, User(u) PROVE FlagTypes'
  BY <1>3 DEF User, CallShutdown, ReturnFromShutdown
<1>4. CASE Monitor
  BY <1>4 DEF Monitor, ShutdownRequested, OutboundDied, InboundDied, RestartTimerFires,
     LoopHead, BothDied, unchangedByMonitor
<1>5. CASE Listener
  BY <1>5 DEF Listener, ReadMessage, ReadFails, ListenCount, RouteResponse, RouteRequest,
     RouteOther, ReadAgain, TellOutbound, unchangedByListener
<1>6. CASE Outbound
  BY <1>6 DEF Outbound, TakeMessage, EncodeFails, Write, WriteFails, OutboundCount,
     OutboundStops, CloseAfterDeath, unchangedByOutbound
<1>7. CASE Tracker
  BY <1>7 DEF Tracker, TakeResponse, TakeRequestOrTimeout, TrackerCount, Forward,
     TrackerStops, unchangedByTracker
<1>8. CASE UNCHANGED vars
  BY <1>8 DEF vars
<1>9. QED
  BY <1>1, <1>2, <1>3, <1>4, <1>5, <1>6, <1>7, <1>8 DEF Next

LEMMA QueueStep == TypeOK /\ [Next]_vars => QueueTypes'
<1> SUFFICES ASSUME QueueTypes, [Next]_vars PROVE QueueTypes'
  BY DEF TypeOK
<1> USE DEF QueueTypes, queueVars, incrementStat
<1>1. CASE Constructor
  BY <1>1 DEF Constructor, Bind, BindFails, StartOutbound
<1>2. CASE TrackStat \/ StatTrackerStops \/ CallerCounts
  BY <1>2 DEF TrackStat, StatTrackerStops, CallerCounts
<1>3. ASSUME NEW u \in Users, User(u) PROVE QueueTypes'
  BY <1>3 DEF User, CallShutdown, ReturnFromShutdown
<1>4. CASE Monitor
  BY <1>4 DEF Monitor, ShutdownRequested, OutboundDied, InboundDied, RestartTimerFires,
     unchangedByMonitor
<1>5. CASE Listener
  BY <1>5 DEF Listener, ReadMessage, ReadFails, ListenCount, RouteResponse, RouteRequest,
     RouteOther, ReadAgain, TellOutbound
<1>6. CASE Outbound
  BY <1>6 DEF Outbound, TakeMessage, EncodeFails, Write, WriteFails, OutboundCount,
     OutboundStops, CloseAfterDeath, unchangedByOutbound
<1>7. CASE Tracker
  BY <1>7 DEF Tracker, TakeResponse, TakeRequestOrTimeout, TrackerCount, Forward,
     TrackerStops
<1>8. CASE UNCHANGED vars
  BY <1>8 DEF vars
<1>9. QED
  BY <1>1, <1>2, <1>3, <1>4, <1>5, <1>6, <1>7, <1>8 DEF Next

\* Every variable of the context always has its type.
THEOREM LifecycleTypes == Spec => []TypeOK
<1>1. Init => TypeOK
  <2>1. Init => PcTypes
    BY DEF Init, PcTypes, Kinds, ListenStates, OutboundStates
  <2>2. Init => FlagTypes
    BY DEF Init, FlagTypes
  <2>3. Init => QueueTypes
    BY DEF Init, QueueTypes
  <2>4. QED
    BY <2>1, <2>2, <2>3 DEF TypeOK
<1>2. TypeOK /\ [Next]_vars => TypeOK'
  BY PcStep, FlagStep, QueueStep DEF TypeOK
<1>3. QED
  BY <1>1, <1>2, PTL DEF Spec

-----------------------------------------------------------------------------

LEMMA KnowsStep ==
  ASSUME TypeOK, MonitorKnows, [Next]_vars
  PROVE  MonitorKnows'
<1> USE DEF MonitorKnows, ListenerIsDead, OutboundIsDead,
        monitorVars, diedVars, closeVars, listenVars, queueVars, userVars
<1>1. CASE Constructor
  BY <1>1 DEF Constructor, Bind, BindFails, StartOutbound
<1>2. CASE TrackStat \/ StatTrackerStops \/ CallerCounts
  BY <1>2 DEF TrackStat, StatTrackerStops, CallerCounts
<1>3. ASSUME NEW u \in Users, User(u) PROVE MonitorKnows'
  BY <1>3 DEF User, CallShutdown, ReturnFromShutdown, TypeOK, PcTypes
<1>4. CASE Monitor
  <2> USE DEF LoopHead, BothDied, unchangedByMonitor, closeConn
  <2>1. CASE ShutdownRequested
    BY <1>4, <2>1 DEF ShutdownRequested
  <2>2. CASE OutboundDied
    BY <2>2 DEF OutboundDied
  <2>3. CASE InboundDied
    BY <2>3 DEF InboundDied
  <2>4. CASE RestartTimerFires
    BY <2>4 DEF RestartTimerFires
  <2>5. QED
    BY <1>4, <2>1, <2>2, <2>3, <2>4 DEF Monitor
<1>5. CASE Listener
  BY <1>5 DEF Listener, ReadMessage, ReadFails, ListenCount, RouteResponse, RouteRequest,
     RouteOther, ReadAgain, TellOutbound, MeetOutbound, unchangedByListener, AfterListenCount
<1>6. CASE Outbound
  BY <1>6 DEF Outbound, TakeMessage, EncodeFails, Write, WriteFails, OutboundCount,
     OutboundStops, CloseAfterDeath, closeConn, unchangedByOutbound, AfterOutboundCount
<1>7. CASE Tracker
  BY <1>7 DEF Tracker, TakeResponse, TakeRequestOrTimeout, TrackerCount, Forward,
     TrackerStops, unchangedByTracker
<1>8. CASE UNCHANGED vars
  BY <1>8 DEF vars
<1>9. QED
  BY <1>1, <1>2, <1>3, <1>4, <1>5, <1>6, <1>7, <1>8 DEF Next

\* Once any call of Shutdown has returned, the socket is closed and unused.
THEOREM QuietAfter == Spec => []QuietAfterShutdown
<1>1. Init => MonitorKnows
  BY DEF Init, MonitorKnows, ListenerIsDead, OutboundIsDead
<1>2. TypeOK /\ MonitorKnows /\ [Next]_vars => MonitorKnows'
  BY KnowsStep
<1>3. MonitorKnows => QuietAfterShutdown
  BY DEF MonitorKnows, QuietAfterShutdown
<1>4. QED
  BY <1>1, <1>2, <1>3, LifecycleTypes, PTL DEF Spec
=============================================================================
