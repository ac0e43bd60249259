------------------------ MODULE RequestTrackerProofs ------------------------
(***************************************************************************)
(* Proofs about RequestTracker, for any number of requests, clients and    *)
(* retries and any capacity of the channels, with or without shutdown and  *)
(* reuse of requests, as long as no more calls are made than there are     *)
(* request ids.                                                            *)
(***************************************************************************)
EXTENDS RequestTracker, FiniteSetTheorems, TLAPS

USE ConstantsAssumption, NoWrapAssumption

-----------------------------------------------------------------------------
(***************************************************************************)
(* Type correctness.                                                       *)
(***************************************************************************)

LEMMA NextIdType == ASSUME NEW id \in Ids PROVE NextId(id) \in Ids
BY DEF NextId, Ids

\* The calls and the timers keep the types.
LEMMA TypeCaller ==
  ASSUME TypeOK, NEW r \in Requests, Caller(r) \/ Timer(r)
  PROVE  TypeOK'
<1> USE DEF TypeOK
<1>1. ASSUME NEW k \in Clients, SendRequest(r, k) PROVE TypeOK'
  <2>1. CallTypes'
    BY <1>1 DEF SendRequest, CallTypes, Lock, setRetriesRemaining,
       CallStates, resultVars
  <2>2. TimerTypes'
    BY <1>1 DEF SendRequest, TimerTypes, timerVars, sharedVars
  <2>3. TrackerTypes'
    BY <1>1 DEF SendRequest, TrackerTypes, trackerVars
  <2>4. ChannelTypes'
    BY <1>1 DEF SendRequest, ChannelTypes, sharedVars
  <2>5. QED
    BY <2>1, <2>2, <2>3, <2>4 DEF TypeOK
<1>2. ASSUME CountSent(r) PROVE TypeOK'
  <2>1. CallTypes'
    BY <1>2 DEF CountSent, CallTypes, CallStates, resultVars
  <2>2. TimerTypes'
    BY <1>2 DEF CountSent, TimerTypes, timerVars
  <2>3. TrackerTypes'
    BY <1>2 DEF CountSent, TrackerTypes, trackerVars
  <2>4. ChannelTypes'
    BY <1>2 DEF CountSent, ChannelTypes, incrementStat
  <2>5. QED
    BY <2>1, <2>2, <2>3, <2>4 DEF TypeOK
<1>3. ASSUME EnqueueRequest(r) PROVE TypeOK'
  <2>1. CallTypes'
    BY <1>3 DEF EnqueueRequest, CallTypes, CallStates, resultVars
  <2>2. TimerTypes'
    BY <1>3 DEF EnqueueRequest, TimerTypes, timerVars
  <2>3. TrackerTypes'
    BY <1>3 DEF EnqueueRequest, TrackerTypes, trackerVars
  <2>4. ChannelTypes'
    BY <1>3 DEF EnqueueRequest, ChannelTypes
  <2>5. QED
    BY <2>1, <2>2, <2>3, <2>4 DEF TypeOK
<1>4. ASSUME Return(r) PROVE TypeOK'
  <2>1. CallTypes'
    BY <1>4 DEF Return, CallTypes, CallStates, resultVars
  <2>2. TimerTypes'
    BY <1>4 DEF Return, TimerTypes, timerVars, sharedVars
  <2>3. TrackerTypes'
    BY <1>4 DEF Return, TrackerTypes, trackerVars
  <2>4. ChannelTypes'
    BY <1>4 DEF Return, ChannelTypes, sharedVars
  <2>5. QED
    BY <2>1, <2>2, <2>3, <2>4 DEF TypeOK
<1>5. ASSUME TimerFires(r) PROVE TypeOK'
  <2>1. CallTypes'
    BY <1>5 DEF TimerFires, CallTypes, callVars, resultVars
  <2>2. TimerTypes'
    BY <1>5 DEF TimerFires, TimerTypes, sharedVars
  <2>3. TrackerTypes'
    BY <1>5 DEF TimerFires, TrackerTypes, trackerVars
  <2>4. ChannelTypes'
    BY <1>5 DEF TimerFires, ChannelTypes, sharedVars
  <2>5. QED
    BY <2>1, <2>2, <2>3, <2>4 DEF TypeOK
<1>6. ASSUME handleRequestTimeout(r) PROVE TypeOK'
  <2>1. CallTypes'
    BY <1>6 DEF handleRequestTimeout, CallTypes, callVars, resultVars
  <2>2. TimerTypes'
    BY <1>6 DEF handleRequestTimeout, TimerTypes, TrackerTypes
  <2>3. TrackerTypes'
    BY <1>6 DEF handleRequestTimeout, TrackerTypes, trackerVars
  <2>4. ChannelTypes'
    BY <1>6 DEF handleRequestTimeout, ChannelTypes
  <2>5. QED
    BY <2>1, <2>2, <2>3, <2>4 DEF TypeOK
<1>7. QED
  BY <1>1, <1>2, <1>3, <1>4, <1>5, <1>6 DEF Caller, Timer

\* So does the tracker.
LEMMA TypeTracker ==
  ASSUME TypeOK, InHandMatches, Tracker
  PROVE  TypeOK'
<1> USE DEF TypeOK
<1>1. CASE AcceptRequest
  <2>1. Head(requestsFromClients) \in Requests
    BY <1>1 DEF AcceptRequest, ChannelTypes
  <2>2. NextId(nextRequestId) \in Ids
    BY NextIdType DEF TrackerTypes
  <2>3. CallTypes'
    BY <1>1 DEF AcceptRequest, CallTypes, callVars, resultVars
  <2>4. TimerTypes'
    <3>1. timer[Head(requestsFromClients)] \in 0 .. 1
      BY <2>1 DEF TimerTypes
    <3>2. orphans[Head(requestsFromClients)] + timer[Head(requestsFromClients)] \in Nat
      BY <2>1, <3>1 DEF TimerTypes
    <3>3. QED
      BY <1>1, <2>1, <3>2 DEF AcceptRequest, TimerTypes, startTimer
  <2>5. TrackerTypes'
    BY <1>1, <2>1, <2>2 DEF AcceptRequest, TrackerTypes, Track,
       TrackerStates, AfterCount
  <2>6. ChannelTypes'
    BY <1>1 DEF AcceptRequest, ChannelTypes
  <2>7. QED
    BY <2>3, <2>4, <2>5, <2>6 DEF TypeOK
<1>2. CASE ReceiveResponse
  <2>1. Head(responsesFromAgents) \in Ids
    BY <1>2 DEF ReceiveResponse, ChannelTypes
  <2>2. outstandingRequests[Head(responsesFromAgents)] \in Requests \union {NoRequest}
    BY <2>1 DEF TrackerTypes
  <2>3. CallTypes'
    BY <1>2, <2>1, <2>2 DEF ReceiveResponse, CallTypes, callVars
  <2>4. TimerTypes'
    BY <1>2, <2>1, <2>2 DEF ReceiveResponse, TimerTypes, stopTimer, timerVars
  <2>5. TrackerTypes'
    BY <1>2, <2>1, <2>2 DEF ReceiveResponse, TrackerTypes, Forget,
       TrackerStates, AfterCount
  <2>6. ChannelTypes'
    BY <1>2 DEF ReceiveResponse, ChannelTypes
  <2>7. QED
    BY <2>3, <2>4, <2>5, <2>6 DEF TypeOK
<1>3. ASSUME NEW id \in Ids, ReceiveTimeout(id) PROVE TypeOK'
  <2>1. outstandingRequests[id] \in Requests \union {NoRequest}
    BY DEF TrackerTypes
  <2>2. CallTypes'
    <3> DEFINE r == outstandingRequests[id]
    <3>1. CASE r # NoRequest /\ isRetryRequired(r)
      <4>1. retriesRemaining[r] \in 1 .. Retries
        BY <2>1, <3>1 DEF CallTypes, isRetryRequired
      <4>2. QED
        BY <1>3, <2>1, <3>1, <4>1 DEF ReceiveTimeout, Retry, CallTypes, callVars
    <3>2. CASE ~(r # NoRequest /\ isRetryRequired(r))
      BY <1>3, <2>1, <3>2 DEF ReceiveTimeout, Exhaust, setTransportError, CallTypes,
         callVars
    <3>3. QED
      BY <3>1, <3>2
  <2>3. TimerTypes'
    BY <1>3, <2>1 DEF ReceiveTimeout, TimerTypes, Retry, Exhaust, startTimer,
       timerVars
  <2>4. TrackerTypes'
    BY <1>3, <2>1 DEF ReceiveTimeout, TrackerTypes, Retry, Exhaust, Forget,
       TrackerStates, AfterCount
  <2>5. ChannelTypes'
    BY <1>3 DEF ReceiveTimeout, ChannelTypes
  <2>6. QED
    BY <2>2, <2>3, <2>4, <2>5 DEF TypeOK
<1>4. CASE CountStat
  <2>1. CallTypes'
    BY <1>4 DEF CountStat, CallTypes, callVars, resultVars
  <2>2. TimerTypes'
    BY <1>4 DEF CountStat, TimerTypes, timerVars
  <2>3. TrackerTypes'
    BY <1>4 DEF CountStat, TrackerTypes, TrackerStates, AfterCount
  <2>4. ChannelTypes'
    BY <1>4 DEF CountStat, ChannelTypes, incrementStat
  <2>5. QED
    BY <2>1, <2>2, <2>3, <2>4 DEF TypeOK
<1>5. CASE Forward
  <2>1. inHand \in Requests
    BY <1>5 DEF Forward, InHandMatches, TrackerTypes
  <2>2. CallTypes'
    BY <1>5, <2>1 DEF Forward, CallTypes, callVars, resultVars
  <2>3. TimerTypes'
    BY <1>5 DEF Forward, TimerTypes, timerVars
  <2>4. TrackerTypes'
    BY <1>5 DEF Forward, TrackerTypes, TrackerStates, AfterCount
  <2>5. ChannelTypes'
    BY <1>5, <2>1 DEF Forward, ChannelTypes
  <2>6. QED
    BY <2>2, <2>3, <2>4, <2>5 DEF TypeOK
<1>6. CASE Notify
  <2>1. CallTypes'
    BY <1>6 DEF Notify, CallTypes, CallStates, resultVars
  <2>2. TimerTypes'
    BY <1>6 DEF Notify, TimerTypes, timerVars, sharedVars
  <2>3. TrackerTypes'
    BY <1>6 DEF Notify, TrackerTypes, TrackerStates, AfterCount
  <2>4. ChannelTypes'
    BY <1>6 DEF Notify, ChannelTypes, sharedVars
  <2>5. QED
    BY <2>1, <2>2, <2>3, <2>4 DEF TypeOK
<1>7. CASE TrackerStops
  <2>1. CallTypes'
    BY <1>7 DEF TrackerStops, CallTypes, callVars, resultVars
  <2>2. TimerTypes'
    BY <1>7 DEF TrackerStops, TimerTypes, timerVars, sharedVars
  <2>3. TrackerTypes'
    BY <1>7 DEF TrackerStops, TrackerTypes, TrackerStates, AfterCount
  <2>4. ChannelTypes'
    BY <1>7 DEF TrackerStops, ChannelTypes, sharedVars
  <2>5. QED
    BY <2>1, <2>2, <2>3, <2>4 DEF TypeOK
<1>8. QED
  BY <1>1, <1>2, <1>3, <1>4, <1>5, <1>6, <1>7 DEF Tracker

\* And the rest of the system.
LEMMA TypeEnvironment ==
  ASSUME TypeOK, Environment
  PROVE  TypeOK'
<1> USE DEF TypeOK, unchangedByOthers
<1>1. CASE Transmit
  <2>1. requestId[Head(outboundFlowControlQueue)] \in Ids
    BY <1>1 DEF Transmit, ChannelTypes, TrackerTypes
  <2>2. CallTypes'
    BY <1>1 DEF Transmit, CallTypes, callVars, resultVars
  <2>3. TimerTypes'
    BY <1>1 DEF Transmit, TimerTypes, timerVars
  <2>4. TrackerTypes'
    BY <1>1 DEF Transmit, TrackerTypes, trackerVars
  <2>5. ChannelTypes'
    BY <1>1, <2>1 DEF Transmit, ChannelTypes
  <2>6. QED
    BY <2>2, <2>3, <2>4, <2>5 DEF TypeOK
<1>2. ASSUME NEW id \in Ids, ResponseArrives(id) PROVE TypeOK'
  <2>1. CallTypes'
    BY <1>2 DEF ResponseArrives, CallTypes, callVars, resultVars
  <2>2. TimerTypes'
    BY <1>2 DEF ResponseArrives, TimerTypes, timerVars
  <2>3. TrackerTypes'
    BY <1>2 DEF ResponseArrives, TrackerTypes, trackerVars
  <2>4. ChannelTypes'
    BY <1>2 DEF ResponseArrives, ChannelTypes
  <2>5. QED
    BY <2>1, <2>2, <2>3, <2>4 DEF TypeOK
<1>3. CASE TrackStat
  <2>1. CallTypes'
    BY <1>3 DEF TrackStat, CallTypes, callVars, resultVars
  <2>2. TimerTypes'
    BY <1>3 DEF TrackStat, TimerTypes, timerVars
  <2>3. TrackerTypes'
    BY <1>3 DEF TrackStat, TrackerTypes, trackerVars
  <2>4. ChannelTypes'
    BY <1>3 DEF TrackStat, ChannelTypes
  <2>5. QED
    BY <2>1, <2>2, <2>3, <2>4 DEF TypeOK
<1>4. CASE OthersIncrementStat
  <2>1. CallTypes'
    BY <1>4 DEF OthersIncrementStat, CallTypes, callVars, resultVars
  <2>2. TimerTypes'
    BY <1>4 DEF OthersIncrementStat, TimerTypes, timerVars
  <2>3. TrackerTypes'
    BY <1>4 DEF OthersIncrementStat, TrackerTypes, trackerVars
  <2>4. ChannelTypes'
    BY <1>4 DEF OthersIncrementStat, ChannelTypes, incrementStat
  <2>5. QED
    BY <2>1, <2>2, <2>3, <2>4 DEF TypeOK
<1>5. CASE CloseInternalShutdownNotification
  <2>1. CallTypes'
    BY <1>5 DEF CloseInternalShutdownNotification, CallTypes, callVars,
       resultVars
  <2>2. TimerTypes'
    BY <1>5 DEF CloseInternalShutdownNotification, TimerTypes, timerVars
  <2>3. TrackerTypes'
    BY <1>5 DEF CloseInternalShutdownNotification, TrackerTypes, trackerVars
  <2>4. ChannelTypes'
    BY <1>5 DEF CloseInternalShutdownNotification, ChannelTypes
  <2>5. QED
    BY <2>1, <2>2, <2>3, <2>4 DEF TypeOK
<1>6. QED
  BY <1>1, <1>2, <1>3, <1>4, <1>5 DEF Environment

LEMMA TypeInit == Init => TypeOK
<1> SUFFICES ASSUME Init PROVE TypeOK
  OBVIOUS
<1>1. 0 \in Ids
  BY DEF Ids
<1>2. CallTypes
  BY DEF Init, CallTypes, CallStates
<1>3. TimerTypes
  BY DEF Init, TimerTypes
<1>4. TrackerTypes
  BY <1>1 DEF Init, TrackerTypes, TrackerStates
<1>5. ChannelTypes
  <2>1. <<>> \in Seq(Requests) /\ <<>> \in Seq(Ids)
    OBVIOUS
  <2>2. 0 \in 0 .. StatCap
    OBVIOUS
  <2>3. QED
    BY <2>1, <2>2, Zenon DEF Init, ChannelTypes
<1>6. QED
  BY <1>2, <1>3, <1>4, <1>5 DEF TypeOK

LEMMA TypeStep ==
  ASSUME TypeOK, InHandMatches, [Next]_vars
  PROVE  TypeOK'
<1>1. CASE UNCHANGED vars
  BY <1>1 DEF TypeOK, CallTypes, TimerTypes, TrackerTypes, ChannelTypes,
     vars, callVars, timerVars, resultVars, trackerVars, sharedVars
<1>2. QED
  BY <1>1, TypeCaller, TypeTracker, TypeEnvironment DEF Next

\* The tracker has a request in hand where its code uses one.
LEMMA InHandStep ==
  ASSUME TypeOK, InHandMatches, [Next]_vars
  PROVE  InHandMatches'
<1> USE DEF InHandMatches
<1>1. CASE UNCHANGED <<trackerPc, inHand>>
  BY <1>1
<1>2. CASE Tracker
  <2>1. CASE AcceptRequest
    <3>1. Head(requestsFromClients) \in Requests
      BY <2>1 DEF AcceptRequest, TypeOK, ChannelTypes
    <3>2. QED
      BY <2>1, <3>1 DEF AcceptRequest
  <2>2. CASE ReceiveResponse
    BY <2>2 DEF ReceiveResponse
  <2>3. ASSUME NEW id \in Ids, ReceiveTimeout(id) PROVE InHandMatches'
    BY <2>3 DEF ReceiveTimeout, Retry, Exhaust
  <2>4. CASE CountStat
    BY <2>4 DEF CountStat, AfterCount
  <2>5. CASE Forward
    BY <2>5 DEF Forward
  <2>6. CASE Notify
    BY <2>6 DEF Notify
  <2>7. CASE TrackerStops
    BY <2>7 DEF TrackerStops
  <2>8. QED
    BY <1>2, <2>1, <2>2, <2>3, <2>4, <2>5, <2>6, <2>7 DEF Tracker
<1>3. CASE Environment
  BY <1>1, <1>3 DEF Environment, Transmit, ResponseArrives, TrackStat, trackerVars,
     OthersIncrementStat, CloseInternalShutdownNotification, unchangedByOthers
<1>4. ASSUME NEW r \in Requests, Caller(r) \/ Timer(r) PROVE InHandMatches'
  BY <1>1, <1>4 DEF Caller, Timer, SendRequest, CountSent, EnqueueRequest, Return,
     TimerFires, handleRequestTimeout, trackerVars
<1>5. QED
  BY <1>1, <1>2, <1>3, <1>4 DEF Next, vars, trackerVars

\* Every variable of the request path always has its type.
THEOREM TypeCorrect == Spec => []TypeOK
<1>1. Init => TypeOK /\ InHandMatches
  BY TypeInit DEF Init, InHandMatches
<1>2. TypeOK /\ InHandMatches /\ [Next]_vars => (TypeOK /\ InHandMatches)'
  BY TypeStep, InHandStep
<1>3. QED
  BY <1>1, <1>2, PTL DEF Spec

-----------------------------------------------------------------------------
(***************************************************************************)
(* Proof that a caller that waits is owed exactly one notify(), for any    *)
(* number of requests, clients and retries, with or without shutdown and   *)
(* reuse of requests.                                                      *)
(*                                                                         *)
(* OneNotifyPerWait alone is not inductive.  AcceptRequest preserves it    *)
(* only if the id it gives out is that of no outstanding request: ids are  *)
(* given out in order (IdsMatch), and the counter cannot wrap, because     *)
(* every id given out and every request still to get one is a call of      *)
(* SendRequest of its own (IdsAreLeft), of which there are fewer than ids. *)
(***************************************************************************)

NotifyInv == TypeOK /\ IdsLeadBack /\ OneNotifyPerWait

Pending == {r \in Requests : WithoutId(r)}

-----------------------------------------------------------------------------
(***************************************************************************)
(* The tracker's channel as a set of requests.                             *)
(***************************************************************************)

LEMMA QueueAppend ==
  ASSUME TypeOK, QueuedOnce, NEW r \in Requests, ~Queued(r),
         requestsFromClients' = Append(requestsFromClients, r)
  PROVE  /\ \A q \in Requests : Queued(q)' <=> Queued(q) \/ q = r
         /\ QueuedOnce'
<1> DEFINE s == requestsFromClients
<1>1. s \in Seq(Requests)
  BY DEF TypeOK, ChannelTypes
<1>2. /\ Len(s') = Len(s) + 1
      /\ s'[Len(s) + 1] = r
      /\ \A i \in 1 .. Len(s) : s'[i] = s[i]
  BY <1>1
<1>3. Len(s) \in Nat
  BY <1>1
<1>4. ASSUME NEW q \in Requests PROVE Queued(q)' <=> Queued(q) \/ q = r
  BY <1>2, <1>3 DEF Queued
<1>5. QueuedOnce'
  BY <1>2, <1>3 DEF Queued, QueuedOnce
<1>6. QED
  BY <1>4, <1>5

LEMMA QueueTail ==
  ASSUME TypeOK, QueuedOnce, requestsFromClients # <<>>,
         requestsFromClients' = Tail(requestsFromClients)
  PROVE  /\ Head(requestsFromClients) \in Requests
         /\ Queued(Head(requestsFromClients))
         /\ \A q \in Requests :
              Queued(q)' <=> Queued(q) /\ q # Head(requestsFromClients)
         /\ QueuedOnce'
<1> DEFINE s == requestsFromClients
<1>1. s \in Seq(Requests)
  BY DEF TypeOK, ChannelTypes
<1>2. /\ Len(s) \in Nat \ {0}
      /\ Head(s) = s[1]
      /\ s[1] \in Requests
      /\ Len(s') = Len(s) - 1
      /\ \A i \in 1 .. Len(s) - 1 : s'[i] = s[i + 1]
  BY <1>1
<1>3. Queued(Head(s))
  BY <1>2 DEF Queued
<1>4. ASSUME NEW q \in Requests PROVE Queued(q)' <=> Queued(q) /\ q # Head(s)
  <2>1. ASSUME NEW i \in 1 .. Len(s'), s'[i] = q PROVE Queued(q) /\ q # Head(s)
    <3>1. i + 1 \in 1 .. Len(s) /\ s[i + 1] = q /\ 1 \in 1 .. Len(s)
      BY <1>2, <2>1
    <3>2. QED
      BY <1>2, <3>1 DEF Queued, QueuedOnce
  <2>2. ASSUME NEW i \in 1 .. Len(s), s[i] = q, q # Head(s) PROVE Queued(q)'
    <3>1. i - 1 \in 1 .. Len(s') /\ s'[i - 1] = q
      BY <1>2, <2>2
    <3>2. QED
      BY <3>1 DEF Queued
  <2>3. QED
    BY <2>1, <2>2 DEF Queued
<1>5. QueuedOnce'
  BY <1>2 DEF QueuedOnce
<1>6. QED
  BY <1>2, <1>3, <1>4, <1>5

-----------------------------------------------------------------------------
(***************************************************************************)
(* The map of outstanding requests.                                        *)
(***************************************************************************)

\* A request is in the map under its own id or not at all.
LEMMA TrackedUnderItsId ==
  ASSUME TypeOK, IdsMatch, NEW r \in Requests
  PROVE  Tracked(r) <=> outstandingRequests[requestId[r]] = r
<1>1. requestId[r] \in Ids /\ r # NoRequest
  BY DEF TypeOK, TrackerTypes
<1>2. QED
  BY <1>1 DEF Tracked, IdsMatch

LEMMA MatchImpliesOnce == TypeOK' /\ IdsMatch' => TrackedOnce'
BY DEF TypeOK, TrackerTypes, IdsMatch, TrackedOnce

LEMMA ForgetOne ==
  ASSUME TypeOK, IdsMatch, NEW r \in Requests, Tracked(r),
         Forget(r), UNCHANGED requestId
  PROVE  \A q \in Requests : Tracked(q)' <=> Tracked(q) /\ q # r
<1>1. requestId[r] \in Ids /\ outstandingRequests[requestId[r]] = r
  BY TrackedUnderItsId DEF TypeOK, TrackerTypes
<1>2. outstandingRequests \in [Ids -> Requests \union {NoRequest}]
  BY DEF TypeOK, TrackerTypes
<1>3. ASSUME NEW q \in Requests, NEW id \in Ids
      PROVE  outstandingRequests'[id] = q <=> outstandingRequests[id] = q /\ q # r
  BY <1>1, <1>2 DEF Forget, IdsMatch
<1>4. QED
  BY <1>3 DEF Tracked

-----------------------------------------------------------------------------
(***************************************************************************)
(* The counter of ids.                                                     *)
(***************************************************************************)

LEMMA PendingFinite == IsFiniteSet(Pending) /\ Cardinality(Pending) \in Nat
BY FS_Subset, FS_CardinalityType DEF Pending

\* While a request waits for its id, the counter is below the last id.
LEMMA NextIdIsNew ==
  ASSUME TypeOK, IdsAreLeft, NEW r \in Pending
  PROVE  /\ NextId(nextRequestId) = nextRequestId + 1
         /\ nextRequestId + 1 + Cardinality(Pending \ {r}) <= sends
<1>1. Cardinality(Pending \ {r}) = Cardinality(Pending) - 1
  BY PendingFinite, FS_RemoveElement
<1>2. Cardinality(Pending \ {r}) \in Nat
  BY PendingFinite, FS_RemoveElement, FS_CardinalityType
<1>3. nextRequestId \in Nat /\ sends \in 0 .. MaxSends
  BY DEF TypeOK, TrackerTypes, CallTypes, Ids
<1>4. nextRequestId + Cardinality(Pending) <= sends
  BY DEF IdsAreLeft, Pending
<1>5. QED
  BY <1>1, <1>2, <1>3, <1>4, PendingFinite DEF NextId

-----------------------------------------------------------------------------
(***************************************************************************)
(* The steps that leave the calls, the channel and the map alone.          *)
(***************************************************************************)

LEMMA Quiet ==
  ASSUME NotifyInv, TypeOK',
         UNCHANGED <<pc, requestsFromClients, outstandingRequests, requestId,
                     nextRequestId, sends>>,
         \A r \in Requests : Releasing(r)' <=> Releasing(r)
  PROVE  OneNotifyPerWait' /\ IdsMatch' /\ IdsAreLeft'
<1> USE DEF NotifyInv, OneNotifyPerWait, IdsLeadBack
<1>1. \A r \in Requests : (Queued(r)' <=> Queued(r)) /\ (Tracked(r)' <=> Tracked(r))
  BY DEF Queued, Tracked
<1>2. WaitersAreOwed' /\ OwedInOnePlace'
  BY <1>1 DEF WaitersAreOwed, OwedInOnePlace
<1>3. QueuedOnce' /\ TrackedOnce' /\ IdsMatch'
  BY DEF QueuedOnce, TrackedOnce, IdsMatch
<1>4. Pending' = Pending
  BY <1>1 DEF Pending, WithoutId
<1>5. QED
  BY <1>2, <1>3, <1>4 DEF IdsAreLeft, Pending

\* The rest of the system is quiet, as are the timers.
LEMMA QuietEnvironment ==
  ASSUME NotifyInv, TypeOK', Environment
  PROVE  OneNotifyPerWait' /\ IdsMatch' /\ IdsAreLeft'
<1>1. /\ UNCHANGED <<pc, requestsFromClients, outstandingRequests, requestId,
                     nextRequestId, sends>>
      /\ UNCHANGED <<inHand, trackerPc>>
  BY DEF Environment, Transmit, ResponseArrives, TrackStat, OthersIncrementStat,
     CloseInternalShutdownNotification, unchangedByOthers, callVars, trackerVars
<1>2. QED
  BY <1>1, Quiet DEF Releasing

LEMMA QuietTimer ==
  ASSUME NotifyInv, TypeOK', NEW r \in Requests, Timer(r)
  PROVE  OneNotifyPerWait' /\ IdsMatch' /\ IdsAreLeft'
<1>1. /\ UNCHANGED <<pc, requestsFromClients, outstandingRequests, requestId,
                     nextRequestId, sends>>
      /\ UNCHANGED <<inHand, trackerPc>>
  BY DEF Timer, TimerFires, handleRequestTimeout, callVars, trackerVars, sharedVars
<1>2. QED
  BY <1>1, Quiet DEF Releasing

-----------------------------------------------------------------------------
(***************************************************************************)
(* The calls.                                                              *)
(***************************************************************************)

\* A call that begins takes one of the ids that are left.
LEMMA NotifyBegin ==
  ASSUME NotifyInv, TypeOK', NEW r \in Requests, NEW k \in Clients, SendRequest(r, k)
  PROVE  OneNotifyPerWait' /\ IdsMatch' /\ IdsAreLeft'
<1> USE DEF NotifyInv, OneNotifyPerWait, IdsLeadBack
<1>1. /\ pc[r] \in {"new", "done"}
      /\ pc' = [pc EXCEPT ![r] = "count"]
      /\ sends' = sends + 1
      /\ UNCHANGED <<requestsFromClients, outstandingRequests, requestId,
                     nextRequestId, inHand, trackerPc>>
  BY DEF SendRequest, sharedVars, trackerVars
<1>2. pc \in [Requests -> CallStates]
  BY DEF TypeOK, CallTypes
<1>3. \A q \in Requests : /\ Queued(q)' <=> Queued(q)
                          /\ Tracked(q)' <=> Tracked(q)
                          /\ Releasing(q)' <=> Releasing(q)
  BY <1>1 DEF Queued, Tracked, Releasing
<1>4. ~Queued(r) /\ ~Tracked(r) /\ ~Releasing(r)
  BY <1>1 DEF WaitersAreOwed
<1>5. WaitersAreOwed'
  BY <1>1, <1>2, <1>3, <1>4 DEF WaitersAreOwed
<1>6. OwedInOnePlace'
  BY <1>3 DEF OwedInOnePlace
<1>7. QueuedOnce' /\ TrackedOnce' /\ IdsMatch'
  BY <1>1 DEF QueuedOnce, TrackedOnce, IdsMatch
<1>8. IdsAreLeft'
  <2>1. r \notin Pending /\ Pending' = Pending \union {r}
    BY <1>1, <1>2, <1>3, <1>4 DEF Pending, WithoutId
  <2>2. Cardinality(Pending') = Cardinality(Pending) + 1
    BY <2>1, PendingFinite, FS_AddElement
  <2>3. nextRequestId \in Nat /\ sends \in Nat
    BY DEF TypeOK, TrackerTypes, CallTypes, Ids
  <2>4. QED
    BY <1>1, <2>2, <2>3, PendingFinite DEF IdsAreLeft, Pending
<1>9. QED
  BY <1>5, <1>6, <1>7, <1>8

LEMMA NotifyEnqueue ==
  ASSUME NotifyInv, TypeOK', NEW r \in Requests, EnqueueRequest(r)
  PROVE  OneNotifyPerWait' /\ IdsMatch' /\ IdsAreLeft'
<1> USE DEF NotifyInv, OneNotifyPerWait, IdsLeadBack
<1>1. /\ pc[r] = "enqueue"
      /\ pc' = [pc EXCEPT ![r] = "wait"]
      /\ requestsFromClients' = Append(requestsFromClients, r)
      /\ UNCHANGED <<outstandingRequests, requestId, nextRequestId, sends, inHand,
                     trackerPc>>
  BY DEF EnqueueRequest, trackerVars
<1>2. pc \in [Requests -> CallStates]
  BY DEF TypeOK, CallTypes
<1>3. ~Queued(r) /\ ~Tracked(r) /\ ~Releasing(r)
  BY <1>1 DEF WaitersAreOwed
<1>4. /\ \A q \in Requests : Queued(q)' <=> Queued(q) \/ q = r
      /\ QueuedOnce'
  BY <1>1, <1>3, QueueAppend
<1>5. \A q \in Requests : (Tracked(q)' <=> Tracked(q)) /\ (Releasing(q)' <=> Releasing(q))
  BY <1>1 DEF Tracked, Releasing
<1>6. WaitersAreOwed'
  BY <1>1, <1>2, <1>4, <1>5 DEF WaitersAreOwed
<1>7. OwedInOnePlace'
  BY <1>3, <1>4, <1>5 DEF OwedInOnePlace
<1>8. TrackedOnce' /\ IdsMatch'
  BY <1>1 DEF TrackedOnce, IdsMatch
<1>9. IdsAreLeft'
  <2>1. Pending' = Pending
    BY <1>1, <1>2, <1>4 DEF Pending, WithoutId
  <2>2. QED
    BY <1>1, <2>1 DEF IdsAreLeft, Pending
<1>10. QED
  BY <1>4, <1>6, <1>7, <1>8, <1>9

\* Any other step of a caller, and notify(), move one call along.
LEMMA NotifyMove ==
  ASSUME NotifyInv, TypeOK', NEW r \in Requests, NEW to,
         pc' = [pc EXCEPT ![r] = to],
         to # "wait",
         pc[r] \in {"count", "enqueue"} <=> to \in {"count", "enqueue"},
         \A q \in Requests : Releasing(q)' <=> Releasing(q) /\ q # r,
         ~Queued(r), ~Tracked(r),
         UNCHANGED <<requestsFromClients, outstandingRequests, requestId,
                     nextRequestId, sends>>
  PROVE  OneNotifyPerWait' /\ IdsMatch' /\ IdsAreLeft'
<1> USE DEF NotifyInv, OneNotifyPerWait, IdsLeadBack
<1>1. \A q \in Requests : (Queued(q)' <=> Queued(q)) /\ (Tracked(q)' <=> Tracked(q))
  BY DEF Queued, Tracked
<1>2. pc \in [Requests -> CallStates]
  BY DEF TypeOK, CallTypes
<1>3. WaitersAreOwed'
  BY <1>1, <1>2 DEF WaitersAreOwed
<1>4. OwedInOnePlace'
  BY <1>1 DEF OwedInOnePlace
<1>5. QueuedOnce' /\ TrackedOnce' /\ IdsMatch'
  BY DEF QueuedOnce, TrackedOnce, IdsMatch
<1>6. Pending' = Pending
  BY <1>1, <1>2 DEF Pending, WithoutId
<1>7. QED
  BY <1>3, <1>4, <1>5, <1>6 DEF IdsAreLeft, Pending

LEMMA NotifyCaller ==
  ASSUME NotifyInv, TypeOK', NEW r \in Requests, Caller(r)
  PROVE  OneNotifyPerWait' /\ IdsMatch' /\ IdsAreLeft'
<1>1. ASSUME pc[r] \notin {"wait"}, UNCHANGED <<inHand, trackerPc>>
      PROVE  /\ ~Queued(r) /\ ~Tracked(r)
             /\ \A q \in Requests : Releasing(q)' <=> Releasing(q) /\ q # r
  BY <1>1 DEF NotifyInv, OneNotifyPerWait, WaitersAreOwed, Releasing
<1>2. CASE CountSent(r)
  <2>1. /\ pc[r] = "count"
        /\ pc' = [pc EXCEPT ![r] = "enqueue"]
        /\ UNCHANGED <<requestsFromClients, outstandingRequests, requestId,
                       nextRequestId, sends, inHand, trackerPc>>
    BY <1>2 DEF CountSent, trackerVars
  <2>2. QED
    BY <1>1, <2>1, NotifyMove
<1>3. CASE Return(r)
  <2>1. /\ pc[r] = "returned"
        /\ pc' = [pc EXCEPT ![r] = "done"]
        /\ UNCHANGED <<requestsFromClients, outstandingRequests, requestId,
                       nextRequestId, sends, inHand, trackerPc>>
    BY <1>3 DEF Return, trackerVars, sharedVars
  <2>2. QED
    BY <1>1, <2>1, NotifyMove
<1>4. QED
  BY <1>2, <1>3, NotifyBegin, NotifyEnqueue DEF Caller

-----------------------------------------------------------------------------
(***************************************************************************)
(* The tracker.                                                            *)
(***************************************************************************)

\* A request moves from the channel to the map, under an id nobody has.
LEMMA NotifyAccept ==
  ASSUME NotifyInv, TypeOK', AcceptRequest
  PROVE  OneNotifyPerWait' /\ IdsMatch' /\ IdsAreLeft'
<1> USE DEF NotifyInv, OneNotifyPerWait, IdsLeadBack
<1> DEFINE r == Head(requestsFromClients)
           id == NextId(nextRequestId)
<1>1. /\ requestsFromClients # <<>>
      /\ requestsFromClients' = Tail(requestsFromClients)
      /\ trackerPc = "select" /\ trackerPc' = "countForward"
      /\ nextRequestId' = id
      /\ requestId' = [requestId EXCEPT ![r] = id]
      /\ outstandingRequests' = [outstandingRequests EXCEPT ![id] = r]
      /\ UNCHANGED <<pc, sends>>
  BY DEF AcceptRequest, Track, callVars
<1>2. /\ r \in Requests
      /\ Queued(r)
      /\ \A q \in Requests : Queued(q)' <=> Queued(q) /\ q # r
      /\ QueuedOnce'
  BY <1>1, QueueTail
<1>3. ~Tracked(r) /\ pc[r] = "wait"
  BY <1>2 DEF WaitersAreOwed, OwedInOnePlace
<1>4. \A q \in Requests : ~Releasing(q) /\ ~Releasing(q)'
  BY <1>1 DEF Releasing
<1> HIDE DEF r
<1>5. r \in Pending
  BY <1>2 DEF Pending, WithoutId
<1>6. /\ id = nextRequestId + 1
      /\ id + Cardinality(Pending \ {r}) <= sends
  BY <1>5, NextIdIsNew
<1>7. /\ nextRequestId \in Nat
      /\ id \in Ids
      /\ requestId \in [Requests -> Ids]
      /\ outstandingRequests \in [Ids -> Requests \union {NoRequest}]
  <2>1. nextRequestId \in Ids
    BY DEF TypeOK, TrackerTypes
  <2>2. nextRequestId \in Nat
    BY <2>1 DEF Ids
  <2>3. QED
    BY <2>1, <2>2, NextIdType DEF TypeOK, TrackerTypes
<1> HIDE DEF id
<1>8. outstandingRequests[id] = NoRequest
  BY <1>6, <1>7 DEF IdsMatch
<1>9. \A q \in Requests : Tracked(q)' <=> Tracked(q) \/ q = r
  BY <1>1, <1>2, <1>7, <1>8 DEF Tracked
<1>10. WaitersAreOwed' /\ OwedInOnePlace'
  BY <1>1, <1>2, <1>3, <1>4, <1>9 DEF WaitersAreOwed, OwedInOnePlace
<1>11. IdsMatch'
  <2> SUFFICES ASSUME NEW i \in Ids, outstandingRequests'[i] # NoRequest
               PROVE  requestId'[outstandingRequests'[i]] = i /\ i <= nextRequestId'
    BY DEF IdsMatch
  <2>1. CASE i = id
    BY <1>1, <1>2, <1>6, <1>7, <2>1
  <2>2. CASE i # id
    <3>1. outstandingRequests[i] \in Requests /\ outstandingRequests'[i] = outstandingRequests[i]
      BY <1>1, <1>7, <2>2
    <3>2. outstandingRequests[i] # r
      BY <1>3 DEF Tracked
    <3>3. requestId[outstandingRequests[i]] = i /\ i <= nextRequestId
      BY <3>1 DEF IdsMatch
    <3>4. i \in Nat
      BY DEF Ids
    <3>5. QED
      BY <1>1, <1>6, <1>7, <3>1, <3>2, <3>3, <3>4
  <2>3. QED
    BY <2>1, <2>2
<1>12. IdsAreLeft'
  <2>1. Pending' = Pending \ {r}
    BY <1>1, <1>2, <1>3 DEF Pending, WithoutId
  <2>2. QED
    BY <1>1, <1>6, <2>1 DEF IdsAreLeft, Pending
<1>13. QED
  BY <1>2, <1>10, <1>11, <1>12, MatchImpliesOnce

\* A request moves from the map into the tracker's hands, to be released.
LEMMA NotifyRelease ==
  ASSUME NotifyInv, TypeOK', NEW r \in Requests, Tracked(r), Forget(r),
         trackerPc = "select", trackerPc' \in {"countReleased", "countExhausted"},
         inHand' = r,
         UNCHANGED <<pc, requestsFromClients, requestId, nextRequestId, sends>>
  PROVE  OneNotifyPerWait' /\ IdsMatch' /\ IdsAreLeft'
<1> USE DEF NotifyInv, OneNotifyPerWait, IdsLeadBack
<1>1. \A q \in Requests : /\ Queued(q)' <=> Queued(q)
                          /\ Tracked(q)' <=> Tracked(q) /\ q # r
                          /\ ~Releasing(q)
                          /\ Releasing(q)' <=> q = r
  BY ForgetOne DEF Queued, Releasing
<1>2. WaitersAreOwed' /\ OwedInOnePlace'
  BY <1>1 DEF WaitersAreOwed, OwedInOnePlace
<1>3. IdsMatch'
  BY DEF IdsMatch, Forget, TypeOK, TrackerTypes
<1>4. Pending' = Pending
  BY <1>1 DEF Pending, WithoutId
<1>5. QueuedOnce' /\ IdsAreLeft'
  BY <1>4 DEF QueuedOnce, IdsAreLeft, Pending
<1>6. QED
  BY <1>2, <1>3, <1>5, MatchImpliesOnce

LEMMA NotifyReceiveResponse ==
  ASSUME NotifyInv, TypeOK', ReceiveResponse
  PROVE  OneNotifyPerWait' /\ IdsMatch' /\ IdsAreLeft'
<1> DEFINE id == Head(responsesFromAgents)
           r == outstandingRequests[id]
<1>1. id \in Ids /\ r \in Requests \union {NoRequest}
  <2>1. responsesFromAgents \in Seq(Ids) /\ responsesFromAgents # <<>>
    BY DEF NotifyInv, TypeOK, ChannelTypes, ReceiveResponse
  <2>2. QED
    BY <2>1 DEF NotifyInv, TypeOK, TrackerTypes
<1>2. /\ trackerPc = "select"
      /\ UNCHANGED <<pc, requestsFromClients, requestId, nextRequestId, sends>>
  BY DEF ReceiveResponse, callVars
<1>3. CASE r = NoRequest
  <2>1. trackerPc' = "countDropped" /\ UNCHANGED <<outstandingRequests, inHand>>
    BY <1>3 DEF ReceiveResponse
  <2>2. QED
    BY <1>2, <2>1, Quiet DEF Releasing
<1>4. CASE r # NoRequest
  <2>1. Forget(r) /\ trackerPc' = "countReleased" /\ inHand' = r
    BY <1>4 DEF ReceiveResponse
  <2>2. r \in Requests /\ Tracked(r)
    BY <1>1, <1>4 DEF Tracked
  <2>3. QED
    BY <1>2, <2>1, <2>2, NotifyRelease
<1>5. QED
  BY <1>3, <1>4

LEMMA NotifyReceiveTimeout ==
  ASSUME NotifyInv, TypeOK', NEW id \in Ids, ReceiveTimeout(id)
  PROVE  OneNotifyPerWait' /\ IdsMatch' /\ IdsAreLeft'
<1> DEFINE r == outstandingRequests[id]
<1>1. r \in Requests \union {NoRequest}
  BY DEF NotifyInv, TypeOK, TrackerTypes
<1>2. /\ trackerPc = "select"
      /\ UNCHANGED <<pc, requestsFromClients, requestId, nextRequestId, sends>>
  BY DEF ReceiveTimeout, callVars
<1>3. CASE r = NoRequest \/ isRetryRequired(r)
  <2>1. /\ trackerPc' \in {"countUnknown", "countTimedOut"}
        /\ UNCHANGED outstandingRequests
    BY <1>3 DEF ReceiveTimeout, Retry
  <2>2. QED
    BY <1>2, <2>1, Quiet DEF Releasing
<1>4. CASE ~(r = NoRequest \/ isRetryRequired(r))
  <2>1. Forget(r) /\ trackerPc' = "countExhausted" /\ inHand' = r
    BY <1>4 DEF ReceiveTimeout, Exhaust
  <2>2. r \in Requests /\ Tracked(r)
    BY <1>1, <1>4 DEF Tracked
  <2>3. QED
    BY <1>2, <2>1, <2>2, NotifyRelease
<1>5. QED
  BY <1>3, <1>4

LEMMA NotifyNotify ==
  ASSUME NotifyInv, TypeOK', Notify
  PROVE  OneNotifyPerWait' /\ IdsMatch' /\ IdsAreLeft'
<1>1. /\ trackerPc = "notify" /\ trackerPc' = "select"
      /\ pc[inHand] = "wait"
      /\ pc' = [pc EXCEPT ![inHand] = "returned"]
      /\ UNCHANGED <<requestsFromClients, outstandingRequests, requestId,
                     nextRequestId, sends>>
  BY DEF Notify, sharedVars
<1>2. inHand \in Requests
  BY <1>1 DEF NotifyInv, IdsLeadBack, InHandMatches, TypeOK, TrackerTypes
<1>3. Releasing(inHand)
  BY <1>1 DEF Releasing
<1>4. ~Queued(inHand) /\ ~Tracked(inHand)
  BY <1>2, <1>3 DEF NotifyInv, OneNotifyPerWait, OwedInOnePlace
<1>5. \A q \in Requests : Releasing(q)' <=> Releasing(q) /\ q # inHand
  BY <1>1 DEF Releasing
<1>6. QED
  BY <1>1, <1>2, <1>4, <1>5, NotifyMove

LEMMA NotifyTracker ==
  ASSUME NotifyInv, TypeOK', Tracker
  PROVE  OneNotifyPerWait' /\ IdsMatch' /\ IdsAreLeft'
<1>1. CASE CountStat
  BY <1>1, Quiet DEF CountStat, AfterCount, Releasing, callVars
<1>2. CASE Forward
  BY <1>2, Quiet DEF Forward, Releasing, callVars
<1>3. CASE TrackerStops
  BY <1>3, Quiet DEF TrackerStops, Releasing, callVars, sharedVars
<1>4. QED
  BY <1>1, <1>2, <1>3, NotifyAccept, NotifyReceiveResponse, NotifyReceiveTimeout,
     NotifyNotify DEF Tracker

-----------------------------------------------------------------------------

LEMMA NotifyInit == Init => NotifyInv
<1> SUFFICES ASSUME Init PROVE NotifyInv
  OBVIOUS
<1>1. TypeOK
  BY TypeInit
<1>2. \A r \in Requests : ~Queued(r) /\ ~Tracked(r) /\ ~Releasing(r) /\ pc[r] = "new"
  BY DEF Init, Queued, Tracked, Releasing
<1>3. WaitersAreOwed /\ OwedInOnePlace
  BY <1>2 DEF WaitersAreOwed, OwedInOnePlace
<1>4. QueuedOnce /\ TrackedOnce /\ IdsMatch /\ InHandMatches
  BY DEF Init, QueuedOnce, TrackedOnce, IdsMatch, InHandMatches
<1>5. IdsAreLeft
  <2>1. {r \in Requests : WithoutId(r)} = {}
    BY <1>2 DEF WithoutId
  <2>2. Cardinality({r \in Requests : WithoutId(r)}) = 0
    BY <2>1, FS_EmptySet
  <2>3. nextRequestId = 0 /\ sends = 0
    BY DEF Init
  <2>4. QED
    BY <2>1, <2>2, <2>3 DEF IdsAreLeft
<1>6. QED
  BY <1>1, <1>3, <1>4, <1>5 DEF NotifyInv, OneNotifyPerWait, IdsLeadBack

LEMMA NotifyStep == NotifyInv /\ [Next]_vars => NotifyInv'
<1> SUFFICES ASSUME NotifyInv, [Next]_vars PROVE NotifyInv'
  OBVIOUS
<1>1. TypeOK' /\ InHandMatches'
  BY TypeStep, InHandStep DEF NotifyInv, IdsLeadBack
<1>2. CASE UNCHANGED vars
  BY <1>1, <1>2, Quiet DEF NotifyInv, IdsLeadBack, Releasing, vars, callVars,
     trackerVars, sharedVars
<1>3. CASE Next
  <2>1. OneNotifyPerWait' /\ IdsMatch' /\ IdsAreLeft'
    BY <1>1, <1>3, NotifyCaller, QuietTimer, NotifyTracker, QuietEnvironment DEF Next
  <2>2. QED
    BY <1>1, <2>1 DEF NotifyInv, IdsLeadBack
<1>4. QED
  BY <1>2, <1>3

\* A caller that waits is owed exactly one notify().
THEOREM OneNotify == Spec => []OneNotifyPerWait
<1>1. NotifyInv => OneNotifyPerWait
  BY DEF NotifyInv
<1>2. QED
  BY <1>1, NotifyInit, NotifyStep, PTL DEF Spec

\* An id leads to one request and back.
THEOREM IdsLead == Spec => []IdsLeadBack
<1>1. NotifyInv => IdsLeadBack
  BY DEF NotifyInv
<1>2. QED
  BY <1>1, NotifyInit, NotifyStep, PTL DEF Spec
=============================================================================
