---------------------- MODULE RequestTrackerCallProofs ----------------------
(***************************************************************************)
(* Proofs of what one call of SendRequest gets, for any number of          *)
(* requests, clients and retries and any capacity of the channels: its     *)
(* client for itself, Retries + 1 sends before a timeout, the response to  *)
(* its own request or an error and not both, one clock; and that the       *)
(* tracker takes only steps that RequestService allows.                    *)
(*                                                                         *)
(* From OneNotifyPerWait a call is at one stage at a time, and the steps   *)
(* take it from one stage to the next.  Everything else is said stage by   *)
(* stage.                                                                  *)
(***************************************************************************)
EXTENDS RequestTrackerProofs

USE ConstantsAssumption, NoWrapAssumption

-----------------------------------------------------------------------------
(***************************************************************************)
(* The stages of a call.                                                   *)
(***************************************************************************)

\* Where a call is, told apart further while its caller waits.
Stage(r) ==
  IF pc[r] # "wait" THEN pc[r]
  ELSE IF Queued(r) THEN "queued"
  ELSE IF Tracked(r) THEN "tracked"
  ELSE "releasing"

Unsent == {"count", "enqueue", "queued"}

LEMMA StageMeans ==
  ASSUME NotifyInv, NEW r \in Requests
  PROVE  /\ Queued(r) <=> Stage(r) = "queued"
         /\ Tracked(r) <=> Stage(r) = "tracked"
         /\ Releasing(r) <=> Stage(r) = "releasing"
         /\ pc[r] = "wait" <=> Stage(r) \in {"queued", "tracked", "releasing"}
         /\ pc[r] # "wait" => Stage(r) = pc[r]
         /\ Stage(r) \in CallStates \union {"queued", "tracked", "releasing"}
<1>1. pc[r] \in CallStates
  BY DEF NotifyInv, TypeOK, CallTypes
<1>2. /\ pc[r] = "wait" <=> (Queued(r) \/ Tracked(r) \/ Releasing(r))
      /\ ~(Queued(r) /\ Tracked(r))
      /\ ~(Releasing(r) /\ (Queued(r) \/ Tracked(r)))
  BY DEF NotifyInv, OneNotifyPerWait, WaitersAreOwed, OwedInOnePlace
<1>3. QED
  BY <1>1, <1>2 DEF Stage, CallStates

\* A request that neither changes place nor call state stays at its stage.
LEMMA StageStays ==
  ASSUME NEW r \in Requests, pc'[r] = pc[r],
         Queued(r)' <=> Queued(r), Tracked(r)' <=> Tracked(r)
  PROVE  Stage(r)' = Stage(r)
BY DEF Stage

\* Steps that leave calls, channel and map alone leave every call at its stage.
LEMMA StageQuiet ==
  ASSUME UNCHANGED <<pc, requestsFromClients, outstandingRequests>>, NEW r \in Requests
  PROVE  Stage(r)' = Stage(r)
<1>1. (Queued(r)' <=> Queued(r)) /\ (Tracked(r)' <=> Tracked(r))
  BY DEF Queued, Tracked
<1>2. QED
  BY <1>1, StageStays

\* A caller's own steps.
LEMMA StageCaller ==
  ASSUME NotifyInv, NotifyInv', NEW r \in Requests, NEW from, NEW to,
         pc[r] = from, pc' = [pc EXCEPT ![r] = to],
         \/ UNCHANGED requestsFromClients /\ to # "wait"
         \/ requestsFromClients' = Append(requestsFromClients, r) /\ to = "wait",
         UNCHANGED outstandingRequests, from # "wait"
  PROVE  /\ Stage(r) = from
         /\ Stage(r)' = IF to = "wait" THEN "queued" ELSE to
         /\ \A q \in Requests \ {r} : Stage(q)' = Stage(q)
<1>1. pc \in [Requests -> CallStates]
  BY DEF NotifyInv, TypeOK, CallTypes
<1>2. Stage(r) = from
  BY DEF Stage
<1>3. ~Queued(r)
  BY <1>2, StageMeans DEF Stage
<1>4. /\ \A q \in Requests : q # r => (Queued(q)' <=> Queued(q))
      /\ to = "wait" => Queued(r)'
  <2>1. CASE UNCHANGED requestsFromClients /\ to # "wait"
    BY <2>1 DEF Queued
  <2>2. CASE requestsFromClients' = Append(requestsFromClients, r) /\ to = "wait"
    BY <1>3, <2>2, QueueAppend DEF NotifyInv, OneNotifyPerWait
  <2>3. QED
    BY <2>1, <2>2
<1>5. \A q \in Requests : Tracked(q)' <=> Tracked(q)
  BY DEF Tracked
<1>6. Stage(r)' = IF to = "wait" THEN "queued" ELSE to
  BY <1>1, <1>4 DEF Stage
<1>7. ASSUME NEW q \in Requests \ {r} PROVE Stage(q)' = Stage(q)
  BY <1>1, <1>4, <1>5, StageStays
<1>8. QED
  BY <1>2, <1>6, <1>7

LEMMA StageAccept ==
  ASSUME NotifyInv, NotifyInv', AcceptRequest
  PROVE  \E r \in Requests :
           /\ r = Head(requestsFromClients)
           /\ Stage(r) = "queued" /\ Stage(r)' = "tracked"
           /\ \A q \in Requests \ {r} : Stage(q)' = Stage(q)
<1>1. /\ Head(requestsFromClients) \in Requests
      /\ Queued(Head(requestsFromClients))
      /\ \A q \in Requests : Queued(q)' <=> Queued(q) /\ q # Head(requestsFromClients)
  BY QueueTail DEF AcceptRequest, NotifyInv, OneNotifyPerWait
<1>2. PICK r \in Requests : r = Head(requestsFromClients)
  BY <1>1
<1>3. PICK id \in Ids : id = NextId(nextRequestId)
  BY NextIdType DEF NotifyInv, TypeOK, TrackerTypes
<1>4. outstandingRequests' = [outstandingRequests EXCEPT ![id] = r] /\ UNCHANGED pc
  BY <1>2, <1>3 DEF AcceptRequest, Track, callVars
<1>5. outstandingRequests[id] = NoRequest
  <2>1. r \in Pending
    BY <1>1, <1>2 DEF Pending, WithoutId
  <2>2. id = nextRequestId + 1
    BY <1>3, <2>1, NextIdIsNew DEF NotifyInv, IdsLeadBack
  <2>3. nextRequestId \in Int
    BY DEF NotifyInv, TypeOK, TrackerTypes, Ids
  <2>4. ~(id <= nextRequestId)
    BY <2>2, <2>3
  <2>5. QED
    BY <2>4 DEF NotifyInv, IdsLeadBack, IdsMatch
<1>6. \A q \in Requests : Tracked(q)' <=> Tracked(q) \/ q = r
  <2>1. outstandingRequests \in [Ids -> Requests \union {NoRequest}]
    BY DEF NotifyInv, TypeOK, TrackerTypes
  <2>2. QED
    BY <1>4, <1>5, <2>1 DEF Tracked
<1>7. Stage(r) = "queued" /\ Stage(r)' = "tracked"
  <2>1. pc[r] = "wait" /\ Stage(r) = "queued"
    BY <1>1, <1>2, StageMeans
  <2>2. ~Queued(r)' /\ Tracked(r)'
    BY <1>1, <1>2, <1>6
  <2>3. QED
    BY <1>4, <2>1, <2>2 DEF Stage
<1>8. ASSUME NEW q \in Requests \ {r} PROVE Stage(q)' = Stage(q)
  BY <1>1, <1>2, <1>4, <1>6, StageStays
<1>9. QED
  BY <1>2, <1>7, <1>8

\* A request that leaves the map is on its way to notify().
LEMMA StageForget ==
  ASSUME NotifyInv, NEW r \in Requests, Tracked(r), Forget(r),
         UNCHANGED <<pc, requestsFromClients, requestId>>
  PROVE  /\ Stage(r) = "tracked" /\ Stage(r)' = "releasing"
         /\ \A q \in Requests \ {r} : Stage(q)' = Stage(q)
<1>1. \A q \in Requests : Tracked(q)' <=> Tracked(q) /\ q # r
  BY ForgetOne DEF NotifyInv, IdsLeadBack
<1>2. \A q \in Requests : Queued(q)' <=> Queued(q)
  BY DEF Queued
<1>3. Stage(r) = "tracked" /\ pc[r] = "wait" /\ ~Queued(r)
  BY StageMeans
<1>4. Stage(r)' = "releasing"
  BY <1>1, <1>2, <1>3 DEF Stage
<1>5. ASSUME NEW q \in Requests \ {r} PROVE Stage(q)' = Stage(q)
  BY <1>1, <1>2, StageStays
<1>6. QED
  BY <1>3, <1>4, <1>5

LEMMA StageNotify ==
  ASSUME NotifyInv, Notify
  PROVE  \E r \in Requests :
           /\ r = inHand
           /\ Stage(r) = "releasing" /\ Stage(r)' = "returned"
           /\ \A q \in Requests \ {r} : Stage(q)' = Stage(q)
<1>1. PICK r \in Requests : r = inHand
  BY DEF Notify, NotifyInv, IdsLeadBack, InHandMatches, TypeOK, TrackerTypes
<1>2. /\ trackerPc = "notify"
      /\ pc' = [pc EXCEPT ![r] = "returned"]
      /\ UNCHANGED <<requestsFromClients, outstandingRequests>>
  BY <1>1 DEF Notify, sharedVars
<1>3. pc \in [Requests -> CallStates]
  BY DEF NotifyInv, TypeOK, CallTypes
<1>4. Stage(r) = "releasing"
  BY <1>1, <1>2, StageMeans DEF Releasing
<1>5. Stage(r)' = "returned"
  BY <1>2, <1>3 DEF Stage
<1>6. \A q \in Requests : (Queued(q)' <=> Queued(q)) /\ (Tracked(q)' <=> Tracked(q))
  BY <1>2 DEF Queued, Tracked
<1>7. ASSUME NEW q \in Requests \ {r} PROVE Stage(q)' = Stage(q)
  BY <1>2, <1>3, <1>6, StageStays
<1>8. QED
  BY <1>1, <1>4, <1>5, <1>7

-----------------------------------------------------------------------------
(***************************************************************************)
(* What each step does to the stages of the calls, with the request that   *)
(* it is about by name.                                                    *)
(***************************************************************************)

\* The steps that take no call from one stage to another.
Still ==
  \/ \E r \in Requests : Timer(r)
  \/ CountStat \/ Forward \/ TrackerStops
  \/ Environment
  \/ UNCHANGED vars

LEMMA StageStill ==
  ASSUME Still, NEW r \in Requests
  PROVE  Stage(r)' = Stage(r)
<1>1. UNCHANGED <<pc, requestsFromClients, outstandingRequests>>
  <2>1. ASSUME NEW q \in Requests, Timer(q)
        PROVE  UNCHANGED <<pc, requestsFromClients, outstandingRequests>>
    BY <2>1 DEF Timer, TimerFires, handleRequestTimeout, callVars, trackerVars, sharedVars
  <2>2. CASE CountStat \/ Forward \/ TrackerStops
    BY <2>2 DEF CountStat, Forward, TrackerStops, callVars, sharedVars
  <2>3. CASE Environment
    BY <2>3 DEF Environment, Transmit, ResponseArrives, TrackStat, OthersIncrementStat,
       CloseInternalShutdownNotification, unchangedByOthers, callVars, trackerVars
  <2>4. CASE UNCHANGED vars
    BY <2>4 DEF vars, callVars, trackerVars, sharedVars
  <2>5. QED
    BY <2>1, <2>2, <2>3, <2>4 DEF Still
<1>2. QED
  BY <1>1, StageQuiet

\* r alone goes from one stage to another.
Moves(r, from, to) ==
  /\ Stage(r) \in from
  /\ Stage(r)' = to
  /\ \A q \in Requests \ {r} : Stage(q)' = Stage(q)

LEMMA StageSendRequest ==
  ASSUME NotifyInv, NotifyInv', NEW r \in Requests, NEW k \in Clients, SendRequest(r, k)
  PROVE  Moves(r, IF r \in SentOnce THEN {"new"} ELSE {"new", "done"}, "count")
<1>1. pc[r] \in (IF r \in SentOnce THEN {"new"} ELSE {"new", "done"})
  BY DEF SendRequest, SentOnce
<1>2. /\ pc' = [pc EXCEPT ![r] = "count"]
      /\ UNCHANGED <<requestsFromClients, outstandingRequests>>
  BY DEF SendRequest, sharedVars, trackerVars
<1>3. pc[r] # "wait"
  BY <1>1
<1>4. QED
  BY <1>1, <1>2, <1>3, StageCaller DEF Moves

LEMMA StageCountSent ==
  ASSUME NotifyInv, NotifyInv', NEW r \in Requests, CountSent(r)
  PROVE  Moves(r, {"count"}, "enqueue")
<1>1. /\ pc[r] = "count" /\ pc' = [pc EXCEPT ![r] = "enqueue"]
      /\ UNCHANGED <<requestsFromClients, outstandingRequests>>
  BY DEF CountSent, trackerVars
<1>2. QED
  BY <1>1, StageCaller DEF Moves

LEMMA StageEnqueueRequest ==
  ASSUME NotifyInv, NotifyInv', NEW r \in Requests, EnqueueRequest(r)
  PROVE  Moves(r, {"enqueue"}, "queued")
<1>1. /\ pc[r] = "enqueue" /\ pc' = [pc EXCEPT ![r] = "wait"]
      /\ requestsFromClients' = Append(requestsFromClients, r)
      /\ UNCHANGED outstandingRequests
  BY DEF EnqueueRequest, trackerVars
<1>2. QED
  BY <1>1, StageCaller DEF Moves

LEMMA StageReturn ==
  ASSUME NotifyInv, NotifyInv', NEW r \in Requests, Return(r)
  PROVE  Moves(r, {"returned"}, "done")
<1>1. /\ pc[r] = "returned" /\ pc' = [pc EXCEPT ![r] = "done"]
      /\ UNCHANGED <<requestsFromClients, outstandingRequests>>
  BY DEF Return, sharedVars, trackerVars
<1>2. QED
  BY <1>1, StageCaller DEF Moves

\* A response that comes too late, or one that ends a call.
DropResponse ==
  /\ \A q \in Requests : Stage(q)' = Stage(q)
  /\ trackerPc' = "countDropped"
  /\ UNCHANGED <<inHand, timerVars, response>>

TakeResponse(r) ==
  /\ Moves(r, {"tracked"}, "releasing")
  /\ Head(responsesFromAgents) = requestId[r]
  /\ trackerPc' = "countReleased" /\ inHand' = r
  /\ stopTimer(r)
  /\ response' = [response EXCEPT ![r] = requestId[r]]

LEMMA StageReceiveResponse ==
  ASSUME NotifyInv, ReceiveResponse
  PROVE  DropResponse \/ \E r \in Requests : TakeResponse(r)
<1>1. PICK id \in Ids : id = Head(responsesFromAgents)
  BY DEF ReceiveResponse, NotifyInv, TypeOK, ChannelTypes
<1>2. UNCHANGED <<pc, requestsFromClients, requestId>>
  BY DEF ReceiveResponse, callVars
<1>3. CASE outstandingRequests[id] = NoRequest
  <2>1. /\ trackerPc' = "countDropped"
        /\ UNCHANGED <<inHand, outstandingRequests, timerVars, response>>
    BY <1>1, <1>3 DEF ReceiveResponse
  <2>2. QED
    BY <1>2, <2>1, StageQuiet DEF DropResponse
<1>4. CASE outstandingRequests[id] # NoRequest
  <2>1. PICK r \in Requests : r = outstandingRequests[id]
    BY <1>4 DEF NotifyInv, TypeOK, TrackerTypes
  <2>2. Tracked(r) /\ requestId[r] = id
    BY <1>4, <2>1 DEF Tracked, NotifyInv, IdsLeadBack, IdsMatch
  <2>3. /\ Forget(r) /\ stopTimer(r)
        /\ response' = [response EXCEPT ![r] = id]
        /\ trackerPc' = "countReleased" /\ inHand' = r
    BY <1>1, <1>4, <2>1 DEF ReceiveResponse
  <2>4. Moves(r, {"tracked"}, "releasing")
    BY <1>2, <2>2, <2>3, StageForget DEF Moves
  <2>5. QED
    BY <1>1, <2>2, <2>3, <2>4 DEF TakeResponse
<1>5. QED
  BY <1>3, <1>4

\* An expiry that comes too late, one that is answered by another send, and one
\* that ends a call.
DropTimeout ==
  /\ \A q \in Requests : Stage(q)' = Stage(q)
  /\ trackerPc' = "countUnknown"
  /\ UNCHANGED <<inHand, timerVars, transportError, retriesRemaining>>

SendAgain(r) ==
  /\ \A q \in Requests : Stage(q)' = Stage(q)
  /\ isRetryRequired(r)
  /\ Retry(r)

TimeOut(r) ==
  /\ Moves(r, {"tracked"}, "releasing")
  /\ ~isRetryRequired(r)
  /\ setTransportError(r)
  /\ trackerPc' = "countExhausted" /\ inHand' = r
  /\ UNCHANGED <<retriesRemaining, timerVars>>

LEMMA StageReceiveTimeout ==
  ASSUME NotifyInv, NEW id \in Ids, ReceiveTimeout(id)
  PROVE  \/ DropTimeout /\ \A r \in Requests : Stage(r) = "tracked" => requestId[r] # id
         \/ \E r \in Requests : /\ Stage(r) = "tracked" /\ requestId[r] = id
                                /\ SendAgain(r) \/ TimeOut(r)
<1>1. UNCHANGED <<pc, requestsFromClients, requestId>>
  BY DEF ReceiveTimeout, callVars
<1>2. CASE outstandingRequests[id] = NoRequest
  <2>1. /\ trackerPc' = "countUnknown"
        /\ UNCHANGED <<inHand, outstandingRequests, timerVars, transportError,
                       retriesRemaining>>
    BY <1>2 DEF ReceiveTimeout
  <2>2. ASSUME NEW r \in Requests, Stage(r) = "tracked" PROVE requestId[r] # id
    <3>1. outstandingRequests[requestId[r]] = r
      BY <2>2, StageMeans, TrackedUnderItsId DEF NotifyInv, IdsLeadBack
    <3>2. QED
      BY <1>2, <3>1
  <2>3. QED
    BY <1>1, <2>1, <2>2, StageQuiet DEF DropTimeout
<1>3. CASE outstandingRequests[id] # NoRequest
  <2>1. PICK r \in Requests : r = outstandingRequests[id]
    BY <1>3 DEF NotifyInv, TypeOK, TrackerTypes
  <2>2. Tracked(r) /\ requestId[r] = id
    BY <1>3, <2>1 DEF Tracked, NotifyInv, IdsLeadBack, IdsMatch
  <2>3. Stage(r) = "tracked"
    BY <2>2, StageMeans
  <2>4. CASE isRetryRequired(r)
    <3>1. Retry(r)
      BY <1>3, <2>1, <2>4 DEF ReceiveTimeout
    <3>2. UNCHANGED outstandingRequests
      BY <3>1 DEF Retry
    <3>3. SendAgain(r)
      BY <1>1, <2>4, <3>1, <3>2, StageQuiet DEF SendAgain
    <3>4. QED
      BY <2>2, <2>3, <3>3
  <2>5. CASE ~isRetryRequired(r)
    <3>1. Exhaust(r)
      BY <1>3, <2>1, <2>5 DEF ReceiveTimeout
    <3>2. Moves(r, {"tracked"}, "releasing")
      BY <1>1, <2>2, <3>1, StageForget DEF Moves, Exhaust
    <3>3. TimeOut(r)
      BY <2>5, <3>1, <3>2 DEF Exhaust, TimeOut
    <3>4. QED
      BY <2>2, <2>3, <3>3
  <2>6. QED
    BY <2>4, <2>5
<1>4. QED
  BY <1>2, <1>3

-----------------------------------------------------------------------------
(***************************************************************************)
(* One request in flight per client.                                       *)
(***************************************************************************)

\* The mutex is held from Lock to Unlock, which is more than the time for which
\* OneInFlightPerClient wants it.
MutexInv ==
  \A r \in Requests : Stage(r) \notin {"new", "done"} => \E k \in Clients : mutex[k] = r

LEMMA MutexInit == Init => MutexInv
BY DEF Init, MutexInv, Stage

\* Steps that leave the mutexes alone begin and end no call.
LEMMA MutexKept ==
  ASSUME MutexInv, UNCHANGED mutex,
         \A r \in Requests : Stage(r)' \notin {"new", "done"} => Stage(r) \notin {"new", "done"}
  PROVE  MutexInv'
BY DEF MutexInv

LEMMA MutexStep ==
  ASSUME NotifyInv, NotifyInv', MutexInv, [Next]_vars
  PROVE  MutexInv'
<1> USE DEF Moves
<1>1. ASSUME NEW r \in Requests, NEW k \in Clients, SendRequest(r, k) PROVE MutexInv'
  <2>1. mutex \in [Clients -> Requests \union {NoRequest}]
    BY DEF NotifyInv, TypeOK, CallTypes
  <2>2. mutex[k] = NoRequest /\ mutex' = [mutex EXCEPT ![k] = r]
    BY <1>1 DEF SendRequest, Lock
  <2>3. \A q \in Requests \ {r} : Stage(q)' = Stage(q)
    BY <1>1, StageSendRequest
  <2>4. ASSUME NEW q \in Requests, Stage(q)' \notin {"new", "done"}
        PROVE  \E i \in Clients : mutex'[i] = q
    <3>1. CASE q = r
      BY <2>1, <2>2, <3>1
    <3>2. CASE q # r
      <4>1. PICK i \in Clients : mutex[i] = q
        BY <2>3, <2>4, <3>2 DEF MutexInv
      <4>2. i # k
        BY <2>2, <4>1
      <4>3. QED
        BY <2>1, <2>2, <4>1, <4>2
    <3>3. QED
      BY <3>1, <3>2
  <2>5. QED
    BY <2>4 DEF MutexInv
<1>2. ASSUME NEW r \in Requests, CountSent(r) \/ EnqueueRequest(r) PROVE MutexInv'
  <2>1. UNCHANGED mutex
    BY <1>2 DEF CountSent, EnqueueRequest
  <2>2. Moves(r, {"count"}, "enqueue") \/ Moves(r, {"enqueue"}, "queued")
    BY <1>2, StageCountSent, StageEnqueueRequest
  <2>3. QED
    BY <2>1, <2>2, MutexKept
<1>3. ASSUME NEW r \in Requests, Return(r) PROVE MutexInv'
  <2>1. mutex' = [k \in Clients |-> IF mutex[k] = r THEN NoRequest ELSE mutex[k]]
    BY <1>3 DEF Return
  <2>2. Moves(r, {"returned"}, "done")
    BY <1>3, StageReturn
  <2>3. QED
    BY <2>1, <2>2 DEF MutexInv
<1>4. CASE AcceptRequest
  <2>1. UNCHANGED mutex
    BY <1>4 DEF AcceptRequest, callVars
  <2>2. QED
    BY <1>4, <2>1, StageAccept, MutexKept
<1>5. CASE ReceiveResponse
  <2>1. UNCHANGED mutex
    BY <1>5 DEF ReceiveResponse, callVars
  <2>2. QED
    BY <1>5, <2>1, StageReceiveResponse, MutexKept DEF DropResponse, TakeResponse
<1>6. ASSUME NEW id \in Ids, ReceiveTimeout(id) PROVE MutexInv'
  <2>1. UNCHANGED mutex
    BY <1>6 DEF ReceiveTimeout, callVars
  <2>2. QED
    BY <1>6, <2>1, StageReceiveTimeout, MutexKept DEF DropTimeout, SendAgain, TimeOut
<1>7. CASE Notify
  <2>1. UNCHANGED mutex
    BY <1>7 DEF Notify
  <2>2. QED
    BY <1>7, <2>1, StageNotify, MutexKept
<1>8. CASE Still
  <2>1. UNCHANGED mutex
    BY <1>8 DEF Still, Timer, TimerFires, handleRequestTimeout, CountStat, Forward, TrackerStops,
       Environment, Transmit, ResponseArrives, TrackStat, OthersIncrementStat,
       CloseInternalShutdownNotification, unchangedByOthers, vars, callVars
  <2>2. QED
    BY <1>8, <2>1, StageStill, MutexKept
<1>9. QED
  BY <1>1, <1>2, <1>3, <1>4, <1>5, <1>6, <1>7, <1>8 DEF Next, Caller, Tracker, Still

-----------------------------------------------------------------------------
(***************************************************************************)
(* The budget of sends.                                                    *)
(***************************************************************************)

\* The sends a call has had and those it has left make Retries + 1 until it ends.
BudgetOf(r) ==
  /\ Stage(r) = "new" => attempts[r] = 0
  /\ Stage(r) \in Unsent => attempts[r] = 0 /\ retriesRemaining[r] = Retries
  /\ Stage(r) = "tracked" =>
       attempts[r] + retriesRemaining[r] + (IF Forwarding(r) THEN 1 ELSE 0) = Retries + 1
  /\ Stage(r) = "releasing" => attempts[r] >= 1
  /\ trackerPc = "countExhausted" /\ inHand = r => attempts[r] = Retries + 1
  /\ Forwarding(r) => Stage(r) = "tracked"

BudgetInv == \A r \in Requests : BudgetOf(r)

LEMMA BudgetInit == Init => BudgetInv
BY DEF Init, BudgetInv, BudgetOf, Stage, Unsent, Forwarding

\* A call that a step is not about keeps its budget.
LEMMA BudgetKept ==
  ASSUME NEW r \in Requests, BudgetOf(r), Stage(r)' = Stage(r),
         attempts'[r] = attempts[r], retriesRemaining'[r] = retriesRemaining[r],
         Forwarding(r)' <=> Forwarding(r),
         trackerPc' = "countExhausted" /\ inHand' = r =>
           trackerPc = "countExhausted" /\ inHand = r
  PROVE  BudgetOf(r)'
BY DEF BudgetOf

LEMMA BudgetCaller ==
  ASSUME NotifyInv, NotifyInv', BudgetInv, NEW r \in Requests, Caller(r)
  PROVE  BudgetInv'
<1> USE DEF Moves
<1>1. UNCHANGED <<trackerPc, inHand>>
  BY DEF Caller, SendRequest, CountSent, EnqueueRequest, Return, trackerVars
<1>2. \A q \in Requests : Forwarding(q)' <=> Forwarding(q)
  BY <1>1 DEF Forwarding
<1>3. /\ attempts \in [Requests -> Nat] /\ retriesRemaining \in [Requests -> 0 .. Retries]
      /\ BudgetOf(r)
  BY DEF NotifyInv, TypeOK, CallTypes, BudgetInv
<1>4. \A q \in Requests \ {r} :
        /\ attempts'[q] = attempts[q] /\ retriesRemaining'[q] = retriesRemaining[q]
        /\ Stage(q)' = Stage(q)
  <2>1. \A q \in Requests \ {r} :
          attempts'[q] = attempts[q] /\ retriesRemaining'[q] = retriesRemaining[q]
    BY <1>3 DEF Caller, SendRequest, CountSent, EnqueueRequest, Return, setRetriesRemaining
  <2>2. QED
    BY <2>1, StageSendRequest, StageCountSent, StageEnqueueRequest, StageReturn DEF Caller
<1>5. BudgetOf(r)'
  <2>1. ~Forwarding(r) /\ ~Releasing(r)
    <3>1. Stage(r) \notin {"tracked", "releasing"}
      BY StageSendRequest, StageCountSent, StageEnqueueRequest, StageReturn DEF Caller
    <3>2. QED
      BY <1>3, <3>1, StageMeans DEF BudgetOf
  <2>2. ~(trackerPc' = "countExhausted" /\ inHand' = r)
    BY <1>1, <2>1 DEF Releasing
  <2>3. ASSUME NEW k \in Clients, SendRequest(r, k) PROVE BudgetOf(r)'
    <3>1. attempts'[r] = 0 /\ retriesRemaining'[r] = Retries
      BY <1>3, <2>3 DEF SendRequest, setRetriesRemaining
    <3>2. Stage(r)' = "count"
      BY <2>3, StageSendRequest
    <3>3. QED
      BY <1>2, <2>1, <2>2, <3>1, <3>2 DEF BudgetOf, Unsent
  <2>4. CASE CountSent(r) \/ EnqueueRequest(r)
    <3>1. UNCHANGED <<attempts, retriesRemaining>>
      BY <2>4 DEF CountSent, EnqueueRequest
    <3>2. Stage(r) \in Unsent /\ Stage(r)' \in {"enqueue", "queued"}
      BY <2>4, StageCountSent, StageEnqueueRequest DEF Unsent
    <3>3. QED
      BY <1>2, <1>3, <2>1, <2>2, <3>1, <3>2 DEF BudgetOf, Unsent
  <2>5. CASE Return(r)
    <3>1. Stage(r)' = "done"
      BY <2>5, StageReturn
    <3>2. QED
      BY <1>2, <2>1, <2>2, <3>1 DEF BudgetOf, Unsent
  <2>6. QED
    BY <2>3, <2>4, <2>5 DEF Caller
<1>6. ASSUME NEW q \in Requests \ {r} PROVE BudgetOf(q)'
  BY <1>1, <1>2, <1>4, BudgetKept DEF BudgetInv
<1>7. QED
  BY <1>5, <1>6 DEF BudgetInv

LEMMA BudgetStill ==
  ASSUME NotifyInv, BudgetInv, Still
  PROVE  BudgetInv'
<1>1. retriesRemaining' = retriesRemaining
  BY DEF Still, Timer, TimerFires, handleRequestTimeout, CountStat, Forward, TrackerStops,
     Environment, Transmit, ResponseArrives, TrackStat, OthersIncrementStat,
     CloseInternalShutdownNotification, unchangedByOthers, vars
<1>2. CASE Forward
  <2>1. PICK r \in Requests : r = inHand
    BY <1>2 DEF Forward, NotifyInv, IdsLeadBack, InHandMatches, TypeOK, TrackerTypes
  <2>2. /\ trackerPc = "forward" /\ trackerPc' = "select"
        /\ attempts' = [attempts EXCEPT ![r] = @ + 1]
    BY <1>2, <2>1 DEF Forward
  <2>3. attempts \in [Requests -> Nat] /\ retriesRemaining \in [Requests -> 0 .. Retries]
    BY DEF NotifyInv, TypeOK, CallTypes
  <2>4. BudgetOf(r)'
    <3>1. Forwarding(r) /\ BudgetOf(r)
      BY <2>1, <2>2 DEF Forwarding, BudgetInv
    <3>2. Stage(r) = "tracked" /\ Stage(r)' = "tracked"
      BY <3>1, StageStill DEF BudgetOf
    <3>3. attempts[r] + retriesRemaining[r] + 1 = Retries + 1
      BY <3>1, <3>2 DEF BudgetOf
    <3>4. attempts'[r] + retriesRemaining'[r] = Retries + 1
      BY <1>1, <2>2, <2>3, <3>3
    <3>5. ~Forwarding(r)'
      BY <2>2 DEF Forwarding
    <3>6. attempts'[r] + retriesRemaining'[r] + 0 = Retries + 1
      BY <1>1, <2>2, <2>3, <3>4
    <3>7. QED
      BY <2>2, <3>2, <3>5, <3>6 DEF BudgetOf, Unsent
  <2>5. ASSUME NEW q \in Requests \ {r} PROVE BudgetOf(q)'
    <3>1. ~Forwarding(q) /\ ~Forwarding(q)'
      BY <2>1, <2>2 DEF Forwarding
    <3>2. attempts'[q] = attempts[q]
      BY <2>2, <2>3
    <3>3. QED
      BY <1>1, <2>2, <3>1, <3>2, StageStill, BudgetKept DEF BudgetInv
  <2>6. QED
    BY <2>4, <2>5 DEF BudgetInv
<1>3. CASE ~Forward
  <2>1. /\ attempts' = attempts
        /\ \A r \in Requests :
             /\ Forwarding(r)' <=> Forwarding(r)
             /\ trackerPc' = "countExhausted" /\ inHand' = r =>
                  trackerPc = "countExhausted" /\ inHand = r
    <3>1. CASE CountStat
      BY <3>1 DEF CountStat, AfterCount, Forwarding
    <3>2. CASE TrackerStops
      BY <3>2 DEF TrackerStops, Forwarding
    <3>3. CASE ~CountStat /\ ~TrackerStops
      <4>1. UNCHANGED <<attempts, trackerPc, inHand>>
        BY <1>3, <3>3 DEF Still, Timer, TimerFires, handleRequestTimeout, Environment,
           Transmit, ResponseArrives, TrackStat, OthersIncrementStat,
           CloseInternalShutdownNotification, unchangedByOthers, vars, trackerVars
      <4>2. QED
        BY <4>1 DEF Forwarding
    <3>4. QED
      BY <3>1, <3>2, <3>3
  <2>2. QED
    BY <1>1, <2>1, StageStill, BudgetKept DEF BudgetInv
<1>4. QED
  BY <1>2, <1>3

LEMMA BudgetAccept ==
  ASSUME NotifyInv, NotifyInv', BudgetInv, AcceptRequest
  PROVE  BudgetInv'
<1>1. PICK r \in Requests :
        /\ r = Head(requestsFromClients)
        /\ Stage(r) = "queued" /\ Stage(r)' = "tracked"
        /\ \A q \in Requests \ {r} : Stage(q)' = Stage(q)
  BY StageAccept
<1>2. /\ trackerPc = "select" /\ trackerPc' = "countForward" /\ inHand' = r
      /\ UNCHANGED <<attempts, retriesRemaining>>
  BY <1>1 DEF AcceptRequest
<1>3. BudgetOf(r)'
  <2>1. attempts'[r] = 0 /\ retriesRemaining'[r] = Retries
    BY <1>1, <1>2 DEF BudgetInv, BudgetOf, Unsent
  <2>2. Forwarding(r)'
    BY <1>2 DEF Forwarding
  <2>3. attempts'[r] + retriesRemaining'[r] + 1 = Retries + 1
    BY <2>1
  <2>4. QED
    BY <1>1, <1>2, <2>1, <2>2, <2>3 DEF BudgetOf, Unsent
<1>4. ASSUME NEW q \in Requests \ {r} PROVE BudgetOf(q)'
  <2>1. ~Forwarding(q) /\ ~Forwarding(q)'
    BY <1>2 DEF Forwarding
  <2>2. QED
    BY <1>1, <1>2, <2>1, BudgetKept DEF BudgetInv
<1>5. QED
  BY <1>3, <1>4 DEF BudgetInv

\* An answer or an expiry comes while no request is being sent.
LEMMA BudgetSelected ==
  ASSUME NotifyInv, BudgetInv, trackerPc = "select", NEW r \in Requests,
         Stage(r) = "tracked"
  PROVE  attempts[r] + retriesRemaining[r] = Retries + 1
<1>1. ~Forwarding(r)
  BY DEF Forwarding
<1>2. attempts[r] + retriesRemaining[r] + 0 = Retries + 1
  BY <1>1 DEF BudgetInv, BudgetOf
<1>3. attempts[r] \in Nat /\ retriesRemaining[r] \in 0 .. Retries
  BY DEF NotifyInv, TypeOK, CallTypes
<1>4. QED
  BY <1>2, <1>3

LEMMA BudgetReceiveResponse ==
  ASSUME NotifyInv, BudgetInv, ReceiveResponse
  PROVE  BudgetInv'
<1>1. trackerPc = "select" /\ UNCHANGED <<attempts, retriesRemaining>>
  BY DEF ReceiveResponse
<1>2. trackerPc' \in {"countDropped", "countReleased"}
  BY StageReceiveResponse DEF DropResponse, TakeResponse
<1>3. \A q \in Requests : ~Forwarding(q) /\ ~Forwarding(q)'
  BY <1>1, <1>2 DEF Forwarding
<1>4. CASE DropResponse
  BY <1>1, <1>2, <1>3, <1>4, BudgetKept DEF DropResponse, BudgetInv
<1>5. ASSUME NEW r \in Requests, TakeResponse(r) PROVE BudgetInv'
  <2>1. attempts'[r] >= 1
    <3>1. attempts[r] + retriesRemaining[r] = Retries + 1
      BY <1>1, <1>5, BudgetSelected DEF TakeResponse, Moves
    <3>2. attempts[r] \in Nat /\ retriesRemaining[r] \in 0 .. Retries
      BY DEF NotifyInv, TypeOK, CallTypes
    <3>3. QED
      BY <1>1, <3>1, <3>2
  <2>2. BudgetOf(r)'
    BY <1>2, <1>3, <1>5, <2>1 DEF BudgetOf, Unsent, TakeResponse, Moves
  <2>3. ASSUME NEW q \in Requests \ {r} PROVE BudgetOf(q)'
    BY <1>1, <1>2, <1>3, <1>5, BudgetKept DEF BudgetInv, TakeResponse, Moves
  <2>4. QED
    BY <2>2, <2>3 DEF BudgetInv
<1>6. QED
  BY <1>4, <1>5, StageReceiveResponse

LEMMA BudgetReceiveTimeout ==
  ASSUME NotifyInv, BudgetInv, NEW id \in Ids, ReceiveTimeout(id)
  PROVE  BudgetInv'
<1>1. trackerPc = "select" /\ UNCHANGED attempts
  BY DEF ReceiveTimeout
<1>2. \A q \in Requests : ~Forwarding(q)
  BY <1>1 DEF Forwarding
<1>3. CASE DropTimeout
  <2>1. \A q \in Requests : ~Forwarding(q)'
    BY <1>3 DEF DropTimeout, Forwarding
  <2>2. QED
    BY <1>1, <1>2, <1>3, <2>1, BudgetKept DEF DropTimeout, BudgetInv
<1>4. ASSUME NEW r \in Requests, Stage(r) = "tracked", SendAgain(r) \/ TimeOut(r)
      PROVE  BudgetInv'
  <2>1. attempts[r] + retriesRemaining[r] = Retries + 1
    BY <1>1, <1>4, BudgetSelected
  <2>2. attempts[r] \in Nat /\ retriesRemaining \in [Requests -> 0 .. Retries]
    BY DEF NotifyInv, TypeOK, CallTypes
  <2>3. BudgetOf(r)'
    <3>1. CASE SendAgain(r)
      <4>1. retriesRemaining'[r] = retriesRemaining[r] - 1
        BY <2>2, <3>1 DEF SendAgain, Retry
      <4>2. Stage(r)' = "tracked" /\ trackerPc' = "countTimedOut" /\ Forwarding(r)'
        BY <1>4, <3>1 DEF SendAgain, Retry, Forwarding
      <4>3. attempts'[r] + retriesRemaining'[r] + 1 = Retries + 1
        BY <1>1, <2>1, <2>2, <4>1
      <4>4. QED
        BY <4>2, <4>3 DEF BudgetOf, Unsent
    <3>2. CASE TimeOut(r)
      <4>1. retriesRemaining[r] = 0
        BY <2>2, <3>2 DEF TimeOut, isRetryRequired
      <4>2. attempts'[r] = Retries + 1 /\ attempts'[r] >= 1
        BY <1>1, <2>1, <2>2, <4>1
      <4>3. Stage(r)' = "releasing" /\ ~Forwarding(r)'
        BY <3>2 DEF TimeOut, Moves, Forwarding
      <4>4. QED
        BY <4>2, <4>3 DEF BudgetOf, Unsent
    <3>3. QED
      BY <1>4, <3>1, <3>2
  <2>4. ASSUME NEW q \in Requests \ {r} PROVE BudgetOf(q)'
    <3>1. /\ inHand' = r
          /\ retriesRemaining'[q] = retriesRemaining[q]
          /\ Stage(q)' = Stage(q)
      BY <1>4, <2>2 DEF SendAgain, Retry, TimeOut, Moves
    <3>2. ~Forwarding(q)'
      BY <3>1 DEF Forwarding
    <3>3. QED
      BY <1>1, <1>2, <3>1, <3>2, BudgetKept DEF BudgetInv
  <2>5. QED
    BY <2>3, <2>4 DEF BudgetInv
<1>5. QED
  BY <1>3, <1>4, StageReceiveTimeout

LEMMA BudgetNotify ==
  ASSUME NotifyInv, BudgetInv, Notify
  PROVE  BudgetInv'
<1>1. PICK r \in Requests :
        /\ Stage(r) = "releasing" /\ Stage(r)' = "returned"
        /\ \A q \in Requests \ {r} : Stage(q)' = Stage(q)
  BY StageNotify
<1>2. /\ trackerPc = "notify" /\ trackerPc' = "select"
      /\ UNCHANGED <<attempts, retriesRemaining>>
  BY DEF Notify
<1>3. \A q \in Requests : ~Forwarding(q) /\ ~Forwarding(q)'
  BY <1>2 DEF Forwarding
<1>4. BudgetOf(r)'
  BY <1>1, <1>2, <1>3 DEF BudgetOf, Unsent
<1>5. ASSUME NEW q \in Requests \ {r} PROVE BudgetOf(q)'
  BY <1>1, <1>2, <1>3, BudgetKept DEF BudgetInv
<1>6. QED
  BY <1>4, <1>5 DEF BudgetInv

LEMMA BudgetStep ==
  ASSUME NotifyInv, NotifyInv', BudgetInv, [Next]_vars
  PROVE  BudgetInv'
BY BudgetCaller, BudgetStill, BudgetAccept, BudgetReceiveResponse, BudgetReceiveTimeout,
   BudgetNotify DEF Next, Tracker, Still

-----------------------------------------------------------------------------
(***************************************************************************)
(* The response to one's own request, or an error.                         *)
(***************************************************************************)

Unanswered == {"new", "tracked"} \union Unsent

AnswerOf(r) ==
  /\ Stage(r) \in Unanswered => response[r] = NoResponse /\ ~transportError[r]
  /\ Stage(r) \in {"releasing", "returned", "done"} =>
       (response[r] # NoResponse) # transportError[r]
  /\ response[r] # NoResponse => response[r] = requestId[r] /\ requestId[r] \in wire
  /\ transportError[r] => attempts[r] = Retries + 1

\* The listener hands over no response to a message that was never written.
AnswerInv ==
  /\ responsesFromAgents \in Seq(wire)
  /\ \A r \in SentOnce : AnswerOf(r)

LEMMA AnswerInit == Init => AnswerInv
<1> SUFFICES ASSUME Init PROVE AnswerInv
  OBVIOUS
<1>1. responsesFromAgents \in Seq(wire)
  BY DEF Init
<1>2. ASSUME NEW r \in SentOnce PROVE AnswerOf(r)
  BY DEF Init, AnswerOf, Stage, SentOnce
<1>3. QED
  BY <1>1, <1>2 DEF AnswerInv

\* A call whose result a step leaves alone keeps it, while more messages are written.
LEMMA AnswerKept ==
  ASSUME NEW r \in SentOnce, AnswerOf(r),
         \/ Stage(r)' = Stage(r)
         \/ Stage(r) \in Unanswered /\ Stage(r)' \in Unanswered
         \/ Stage(r)' \in {"returned", "done"} /\ Stage(r) \in {"releasing", "returned"},
         UNCHANGED <<response, transportError>>, wire \subseteq wire',
         transportError[r] => attempts'[r] = attempts[r],
         response[r] # NoResponse => requestId'[r] = requestId[r]
  PROVE  AnswerOf(r)'
BY DEF AnswerOf, Unanswered, Unsent

LEMMA AnswerCaller ==
  ASSUME NotifyInv, NotifyInv', AnswerInv, NEW r \in Requests, Caller(r)
  PROVE  AnswerInv'
<1> USE DEF Moves
<1>1. UNCHANGED <<response, transportError, responsesFromAgents, requestId, wire>>
  BY DEF Caller, SendRequest, CountSent, EnqueueRequest, Return, resultVars, sharedVars
<1>2. \/ Moves(r, IF r \in SentOnce THEN {"new"} ELSE {"new", "done"}, "count")
      \/ /\ UNCHANGED attempts
         /\ \/ Moves(r, {"count"}, "enqueue") \/ Moves(r, {"enqueue"}, "queued")
            \/ Moves(r, {"returned"}, "done")
  <2>1. ASSUME NEW k \in Clients, SendRequest(r, k)
        PROVE  Moves(r, IF r \in SentOnce THEN {"new"} ELSE {"new", "done"}, "count")
    BY <2>1, StageSendRequest
  <2>2. CASE CountSent(r) \/ EnqueueRequest(r) \/ Return(r)
    <3>1. UNCHANGED attempts
      BY <2>2 DEF CountSent, EnqueueRequest, Return
    <3>2. QED
      BY <2>2, <3>1, StageCountSent, StageEnqueueRequest, StageReturn
  <2>3. QED
    BY <2>1, <2>2 DEF Caller
<1>3. \A q \in Requests \ {r} : attempts'[q] = attempts[q]
  <2>1. attempts \in [Requests -> Nat]
    BY DEF NotifyInv, TypeOK, CallTypes
  <2>2. QED
    BY <2>1 DEF Caller, SendRequest, CountSent, EnqueueRequest, Return
<1>4. ASSUME NEW q \in SentOnce PROVE AnswerOf(q)'
  <2>1. q \in Requests /\ AnswerOf(q)
    BY DEF SentOnce, AnswerInv
  <2>2. CASE q # r
    BY <1>1, <1>2, <1>3, <2>1, <2>2, AnswerKept
  <2>3. CASE q = r
    <3>1. transportError[q] => attempts'[q] = attempts[q]
      BY <1>2, <2>1, <2>3 DEF AnswerOf, Unanswered
    <3>2. \/ Stage(q) \in Unanswered /\ Stage(q)' \in Unanswered
          \/ Stage(q)' \in {"returned", "done"} /\ Stage(q) \in {"releasing", "returned"}
      BY <1>2, <2>3 DEF Unanswered, Unsent
    <3>3. QED
      BY <1>1, <2>1, <3>1, <3>2, AnswerKept
  <2>4. QED
    BY <2>2, <2>3
<1>5. QED
  BY <1>1, <1>4 DEF AnswerInv

LEMMA AnswerStill ==
  ASSUME NotifyInv, BudgetInv, AnswerInv, Still
  PROVE  AnswerInv'
<1>1. UNCHANGED <<response, transportError, requestId>>
  BY DEF Still, Timer, TimerFires, handleRequestTimeout, CountStat, Forward, TrackerStops,
     Environment, Transmit, ResponseArrives, TrackStat, OthersIncrementStat,
     CloseInternalShutdownNotification, unchangedByOthers, vars, resultVars
<1>2. wire \subseteq wire' /\ responsesFromAgents' \in Seq(wire')
  <2>1. CASE Transmit
    <3>1. wire \subseteq wire' /\ UNCHANGED responsesFromAgents
      BY <2>1 DEF Transmit
    <3>2. QED
      BY <3>1 DEF AnswerInv
  <2>2. ASSUME NEW id \in Ids, ResponseArrives(id)
        PROVE  wire \subseteq wire' /\ responsesFromAgents' \in Seq(wire')
    BY <2>2 DEF ResponseArrives, AnswerInv
  <2>3. CASE ~Transmit /\ ~\E id \in Ids : ResponseArrives(id)
    <3>1. UNCHANGED <<wire, responsesFromAgents>>
      BY <2>3 DEF Still, Timer, TimerFires, handleRequestTimeout, CountStat, Forward,
         TrackerStops, Environment, TrackStat, OthersIncrementStat,
         CloseInternalShutdownNotification, vars, sharedVars
    <3>2. QED
      BY <3>1 DEF AnswerInv
  <2>4. QED
    BY <2>1, <2>2, <2>3
<1>3. ASSUME NEW r \in SentOnce, transportError[r] PROVE attempts'[r] = attempts[r]
  <2>1. CASE Forward
    <3>1. trackerPc = "forward" /\ attempts' = [attempts EXCEPT ![inHand] = @ + 1]
      BY <2>1 DEF Forward
    <3>2. r # inHand
      <4>1. SUFFICES ASSUME r = inHand PROVE FALSE
        OBVIOUS
      <4>2. Forwarding(r) /\ r \in Requests
        BY <3>1, <4>1 DEF Forwarding, SentOnce
      <4>3. Stage(r) = "tracked"
        BY <4>2 DEF BudgetInv, BudgetOf
      <4>4. QED
        BY <1>3, <4>3 DEF AnswerInv, AnswerOf, Unanswered
    <3>3. attempts \in [Requests -> Nat] /\ r \in Requests
      BY DEF NotifyInv, TypeOK, CallTypes, SentOnce
    <3>4. QED
      BY <3>1, <3>2, <3>3
  <2>2. CASE ~Forward
    BY <2>2 DEF Still, Timer, TimerFires, handleRequestTimeout, CountStat, TrackerStops,
       Environment, Transmit, ResponseArrives, TrackStat, OthersIncrementStat,
       CloseInternalShutdownNotification, unchangedByOthers, vars
  <2>3. QED
    BY <2>1, <2>2
<1>4. ASSUME NEW r \in SentOnce PROVE AnswerOf(r)'
  <2>1. Stage(r)' = Stage(r)
    BY StageStill DEF SentOnce
  <2>2. QED
    BY <1>1, <1>2, <1>3, <2>1, AnswerKept DEF AnswerInv
<1>5. QED
  BY <1>2, <1>4 DEF AnswerInv

LEMMA AnswerAccept ==
  ASSUME NotifyInv, NotifyInv', AnswerInv, AcceptRequest
  PROVE  AnswerInv'
<1>1. PICK r \in Requests :
        /\ r = Head(requestsFromClients)
        /\ Stage(r) = "queued" /\ Stage(r)' = "tracked"
        /\ \A q \in Requests \ {r} : Stage(q)' = Stage(q)
  BY StageAccept
<1>2. /\ UNCHANGED <<response, transportError, attempts, wire, responsesFromAgents>>
      /\ requestId' = [requestId EXCEPT ![r] = NextId(nextRequestId)]
  BY <1>1 DEF AcceptRequest, resultVars
<1>3. requestId \in [Requests -> Ids]
  BY DEF NotifyInv, TypeOK, TrackerTypes
<1>4. ASSUME NEW q \in SentOnce PROVE AnswerOf(q)'
  <2>1. q \in Requests /\ AnswerOf(q)
    BY DEF SentOnce, AnswerInv
  <2>2. response[q] # NoResponse => requestId'[q] = requestId[q]
    BY <1>1, <1>2, <1>3, <2>1 DEF AnswerOf, Unanswered, Unsent
  <2>3. Stage(q)' = Stage(q) \/ (Stage(q) \in Unanswered /\ Stage(q)' \in Unanswered)
    BY <1>1, <2>1 DEF Unanswered, Unsent
  <2>4. QED
    BY <1>2, <2>1, <2>2, <2>3, AnswerKept
<1>5. QED
  BY <1>2, <1>4 DEF AnswerInv

LEMMA AnswerReceiveResponse ==
  ASSUME NotifyInv, AnswerInv, ReceiveResponse
  PROVE  AnswerInv'
<1>1. /\ responsesFromAgents # <<>> /\ responsesFromAgents' = Tail(responsesFromAgents)
      /\ UNCHANGED <<transportError, requestId, attempts, wire>>
  BY DEF ReceiveResponse
<1>2. Head(responsesFromAgents) \in wire /\ responsesFromAgents' \in Seq(wire')
  BY <1>1 DEF AnswerInv
<1>3. CASE DropResponse
  <2>1. ASSUME NEW q \in SentOnce PROVE AnswerOf(q)'
    BY <1>1, <1>3, AnswerKept DEF DropResponse, AnswerInv, SentOnce
  <2>2. QED
    BY <1>2, <2>1 DEF AnswerInv
<1>4. ASSUME NEW r \in Requests, TakeResponse(r) PROVE AnswerInv'
  <2>1. /\ Stage(r) = "tracked" /\ Stage(r)' = "releasing"
        /\ \A q \in Requests \ {r} : Stage(q)' = Stage(q)
        /\ Head(responsesFromAgents) = requestId[r]
        /\ response' = [response EXCEPT ![r] = requestId[r]]
    BY <1>4 DEF TakeResponse, Moves
  <2>2. /\ response \in [Requests -> Ids \union {NoResponse}] /\ requestId[r] \in Ids
        /\ transportError \in [Requests -> BOOLEAN]
    BY DEF NotifyInv, TypeOK, CallTypes, TrackerTypes
  <2>3. ASSUME NEW q \in SentOnce PROVE AnswerOf(q)'
    <3>1. q \in Requests /\ AnswerOf(q)
      BY DEF SentOnce, AnswerInv
    <3>2. CASE q = r
      <4>1. response'[q] = requestId'[q] /\ response'[q] # NoResponse /\ requestId'[q] \in wire'
        BY <1>1, <1>2, <2>1, <2>2, <3>2
      <4>2. ~transportError'[q]
        BY <1>1, <2>1, <3>1, <3>2 DEF AnswerOf, Unanswered
      <4>3. Stage(q)' = "releasing"
        BY <2>1, <3>2
      <4>4. QED
        BY <2>2, <4>1, <4>2, <4>3 DEF AnswerOf, Unanswered, Unsent
    <3>3. CASE q # r
      <4>1. response'[q] = response[q] /\ Stage(q)' = Stage(q)
        BY <2>1, <2>2, <3>1, <3>3
      <4>2. QED
        BY <1>1, <3>1, <4>1 DEF AnswerOf
    <3>4. QED
      BY <3>2, <3>3
  <2>4. QED
    BY <1>2, <2>3 DEF AnswerInv
<1>5. QED
  BY <1>3, <1>4, StageReceiveResponse

LEMMA AnswerReceiveTimeout ==
  ASSUME NotifyInv, BudgetInv', AnswerInv, NEW id \in Ids, ReceiveTimeout(id)
  PROVE  AnswerInv'
<1>1. UNCHANGED <<response, requestId, attempts, wire, responsesFromAgents>>
  BY DEF ReceiveTimeout
<1>2. ASSUME UNCHANGED transportError, \A q \in Requests : Stage(q)' = Stage(q)
      PROVE  AnswerInv'
  <2>1. ASSUME NEW q \in SentOnce PROVE AnswerOf(q)'
    BY <1>1, <1>2, AnswerKept DEF AnswerInv, SentOnce
  <2>2. QED
    BY <1>1, <2>1 DEF AnswerInv
<1>3. CASE DropTimeout
  BY <1>2, <1>3 DEF DropTimeout
<1>4. ASSUME NEW r \in Requests, SendAgain(r) PROVE AnswerInv'
  BY <1>2, <1>4 DEF SendAgain, Retry
<1>5. ASSUME NEW r \in Requests, TimeOut(r) PROVE AnswerInv'
  <2>1. /\ Stage(r) = "tracked" /\ Stage(r)' = "releasing"
        /\ \A q \in Requests \ {r} : Stage(q)' = Stage(q)
        /\ transportError' = [transportError EXCEPT ![r] = TRUE]
        /\ trackerPc' = "countExhausted" /\ inHand' = r
    BY <1>5 DEF TimeOut, Moves, setTransportError
  <2>2. transportError \in [Requests -> BOOLEAN]
    BY DEF NotifyInv, TypeOK, CallTypes
  <2>3. attempts'[r] = Retries + 1
    BY <2>1 DEF BudgetInv, BudgetOf
  <2>4. ASSUME NEW q \in SentOnce PROVE AnswerOf(q)'
    <3>1. q \in Requests /\ AnswerOf(q)
      BY DEF SentOnce, AnswerInv
    <3>2. CASE q = r
      <4>1. response'[q] = NoResponse
        BY <1>1, <2>1, <3>1, <3>2 DEF AnswerOf, Unanswered
      <4>2. transportError'[q] = TRUE /\ Stage(q)' = "releasing"
        BY <2>1, <2>2, <3>2
      <4>3. QED
        BY <2>3, <3>2, <4>1, <4>2 DEF AnswerOf, Unanswered, Unsent
    <3>3. CASE q # r
      <4>1. transportError'[q] = transportError[q] /\ Stage(q)' = Stage(q)
        BY <2>1, <2>2, <3>1, <3>3
      <4>2. QED
        BY <1>1, <3>1, <4>1 DEF AnswerOf
    <3>4. QED
      BY <3>2, <3>3
  <2>5. QED
    BY <1>1, <2>4 DEF AnswerInv
<1>6. QED
  BY <1>3, <1>4, <1>5, StageReceiveTimeout

LEMMA AnswerNotify ==
  ASSUME NotifyInv, AnswerInv, Notify
  PROVE  AnswerInv'
<1>1. PICK r \in Requests :
        /\ Stage(r) = "releasing" /\ Stage(r)' = "returned"
        /\ \A q \in Requests \ {r} : Stage(q)' = Stage(q)
  BY StageNotify
<1>2. UNCHANGED <<response, transportError, requestId, attempts, wire, responsesFromAgents>>
  BY DEF Notify, resultVars, sharedVars
<1>3. ASSUME NEW q \in SentOnce PROVE AnswerOf(q)'
  <2>1. \/ Stage(q)' = Stage(q)
        \/ Stage(q)' \in {"returned", "done"} /\ Stage(q) \in {"releasing", "returned"}
    BY <1>1 DEF SentOnce
  <2>2. QED
    BY <1>2, <2>1, AnswerKept DEF AnswerInv
<1>4. QED
  BY <1>2, <1>3 DEF AnswerInv

LEMMA AnswerStep ==
  ASSUME NotifyInv, NotifyInv', BudgetInv, BudgetInv', AnswerInv, [Next]_vars
  PROVE  AnswerInv'
BY AnswerCaller, AnswerStill, AnswerAccept, AnswerReceiveResponse, AnswerReceiveTimeout,
   AnswerNotify DEF Next, Tracker, Still

-----------------------------------------------------------------------------
(***************************************************************************)
(* One clock.                                                              *)
(***************************************************************************)

\* No two requests ever carry the same id, 0 being that of one not yet accepted,
\* and no expiry comes from an id not yet given out.
IdInv ==
  /\ \A id \in Ids : requestTimeouts[id] > 0 => id <= nextRequestId
  /\ \A r \in Requests : requestId[r] <= nextRequestId
  /\ \A r, q \in Requests : requestId[r] = requestId[q] => r = q \/ requestId[r] = 0
  /\ \A r \in Requests : Stage(r) = "tracked" => requestId[r] # 0

LEMMA IdInit == Init => IdInv
<1> SUFFICES ASSUME Init PROVE IdInv
  OBVIOUS
<1>1. \A r \in Requests : Stage(r) = "new" /\ requestId[r] = 0
  BY DEF Init, Stage
<1>2. nextRequestId = 0 /\ \A id \in Ids : requestTimeouts[id] = 0
  BY DEF Init
<1>3. QED
  BY <1>1, <1>2 DEF IdInv

\* Steps that give out no id, and from which no expiry of an id not given out comes.
LEMMA IdKept ==
  ASSUME NotifyInv, IdInv, UNCHANGED <<requestId, nextRequestId>>,
         \A id \in Ids : requestTimeouts'[id] > 0 =>
           requestTimeouts[id] > 0 \/ id <= nextRequestId,
         \A r \in Requests : Stage(r)' = "tracked" => Stage(r) = "tracked"
  PROVE  IdInv'
BY DEF IdInv

LEMMA IdCaller ==
  ASSUME NotifyInv, NotifyInv', IdInv, NEW r \in Requests, Caller(r)
  PROVE  IdInv'
<1>1. UNCHANGED <<requestId, nextRequestId, requestTimeouts>>
  BY DEF Caller, SendRequest, CountSent, EnqueueRequest, Return, sharedVars, trackerVars
<1>2. \A q \in Requests : Stage(q)' = "tracked" => Stage(q) = "tracked"
  BY StageSendRequest, StageCountSent, StageEnqueueRequest, StageReturn DEF Caller, Moves
<1>3. QED
  BY <1>1, <1>2, IdKept

LEMMA IdTimer ==
  ASSUME NotifyInv, IdInv, NEW r \in Requests, Timer(r)
  PROVE  IdInv'
<1>1. UNCHANGED <<requestId, nextRequestId>>
  BY DEF Timer, TimerFires, handleRequestTimeout, trackerVars
<1>2. \A q \in Requests : Stage(q)' = Stage(q)
  BY StageStill DEF Still
<1>3. ASSUME NEW id \in Ids, requestTimeouts'[id] > 0
      PROVE  requestTimeouts[id] > 0 \/ id <= nextRequestId
  <2>1. CASE TimerFires(r)
    BY <1>3, <2>1 DEF TimerFires, sharedVars
  <2>2. CASE handleRequestTimeout(r)
    <3>1. /\ requestTimeouts' = [requestTimeouts EXCEPT ![requestId[r]] = @ + 1]
          /\ requestTimeouts \in [Ids -> Nat]
      BY <2>2 DEF handleRequestTimeout, NotifyInv, TypeOK, TimerTypes
    <3>2. requestId[r] <= nextRequestId
      BY DEF IdInv
    <3>3. id # requestId[r] => requestTimeouts'[id] = requestTimeouts[id]
      BY <3>1
    <3>4. QED
      BY <1>3, <3>2, <3>3
  <2>3. QED
    BY <2>1, <2>2 DEF Timer
<1>4. QED
  BY <1>1, <1>2, <1>3, IdKept

LEMMA IdAccept ==
  ASSUME NotifyInv, NotifyInv', IdInv, AcceptRequest
  PROVE  IdInv'
<1>1. PICK r \in Requests :
        /\ r = Head(requestsFromClients)
        /\ Stage(r) = "queued" /\ Stage(r)' = "tracked"
        /\ \A q \in Requests \ {r} : Stage(q)' = Stage(q)
  BY StageAccept
<1>2. r \in Pending
  BY <1>1, StageMeans DEF Pending, WithoutId
<1>3. NextId(nextRequestId) = nextRequestId + 1
  BY <1>2, NextIdIsNew DEF NotifyInv, IdsLeadBack
<1>4. /\ nextRequestId' = nextRequestId + 1
      /\ requestId' = [requestId EXCEPT ![r] = nextRequestId + 1]
      /\ UNCHANGED requestTimeouts
  BY <1>1, <1>3 DEF AcceptRequest
<1>5. /\ nextRequestId \in Nat /\ requestId \in [Requests -> Ids] /\ Ids \subseteq Nat
      /\ \A q \in Requests : requestId[q] \in Nat
  BY DEF NotifyInv, TypeOK, TrackerTypes, Ids
<1>6. \A q \in Requests \ {r} :
        requestId'[q] = requestId[q] /\ requestId[q] <= nextRequestId
  BY <1>4, <1>5 DEF IdInv
<1>7. requestId'[r] = nextRequestId + 1
  BY <1>4, <1>5
<1>8. \A id \in Ids : requestTimeouts'[id] > 0 => id <= nextRequestId'
  <2>1. ASSUME NEW id \in Ids, requestTimeouts'[id] > 0 PROVE id <= nextRequestId'
    <3>1. id <= nextRequestId /\ id \in Nat
      BY <1>4, <1>5, <2>1 DEF IdInv
    <3>2. QED
      BY <1>4, <1>5, <3>1
  <2>2. QED
    BY <2>1
<1>9. \A q \in Requests : requestId'[q] <= nextRequestId'
  BY <1>4, <1>5, <1>6, <1>7
<1>10. ASSUME NEW p \in Requests, NEW q \in Requests, requestId'[p] = requestId'[q]
       PROVE  p = q \/ requestId'[p] = 0
  <2>1. CASE p = r \/ q = r
    BY <1>5, <1>6, <1>7, <1>10, <2>1
  <2>2. CASE p # r /\ q # r
    BY <1>6, <1>10, <2>2 DEF IdInv
  <2>3. QED
    BY <2>1, <2>2
<1>11. ASSUME NEW q \in Requests, Stage(q)' = "tracked" PROVE requestId'[q] # 0
  <2>1. CASE q = r
    BY <1>5, <1>7, <2>1
  <2>2. CASE q # r
    BY <1>1, <1>6, <1>11, <2>2 DEF IdInv
  <2>3. QED
    BY <2>1, <2>2
<1>12. QED
  BY <1>8, <1>9, <1>10, <1>11 DEF IdInv

LEMMA IdStep ==
  ASSUME NotifyInv, NotifyInv', IdInv, [Next]_vars
  PROVE  IdInv'
<1>1. ASSUME NEW r \in Requests, Caller(r) \/ Timer(r) PROVE IdInv'
  BY <1>1, IdCaller, IdTimer
<1>2. CASE AcceptRequest
  BY <1>2, IdAccept
<1>3. CASE ReceiveResponse
  <2>1. UNCHANGED <<requestId, nextRequestId, requestTimeouts>>
    BY <1>3 DEF ReceiveResponse
  <2>2. \A q \in Requests : Stage(q)' = "tracked" => Stage(q) = "tracked"
    BY <1>3, StageReceiveResponse DEF DropResponse, TakeResponse, Moves
  <2>3. QED
    BY <2>1, <2>2, IdKept
<1>4. ASSUME NEW id \in Ids, ReceiveTimeout(id) PROVE IdInv'
  <2>1. /\ UNCHANGED <<requestId, nextRequestId>>
        /\ requestTimeouts[id] > 0
        /\ requestTimeouts' = [requestTimeouts EXCEPT ![id] = @ - 1]
        /\ requestTimeouts \in [Ids -> Nat]
    BY <1>4 DEF ReceiveTimeout, NotifyInv, TypeOK, TimerTypes
  <2>2. \A i \in Ids : requestTimeouts'[i] > 0 => requestTimeouts[i] > 0
    BY <2>1
  <2>3. \A q \in Requests : Stage(q)' = "tracked" => Stage(q) = "tracked"
    BY <1>4, StageReceiveTimeout DEF DropTimeout, SendAgain, TimeOut, Moves
  <2>4. QED
    BY <2>1, <2>2, <2>3, IdKept
<1>5. CASE Notify
  <2>1. UNCHANGED <<requestId, nextRequestId, requestTimeouts>>
    BY <1>5 DEF Notify, sharedVars
  <2>2. \A q \in Requests : Stage(q)' = "tracked" => Stage(q) = "tracked"
    BY <1>5, StageNotify
  <2>3. QED
    BY <2>1, <2>2, IdKept
<1>6. CASE CountStat \/ Forward \/ TrackerStops \/ Environment \/ UNCHANGED vars
  <2>1. UNCHANGED <<requestId, nextRequestId, requestTimeouts>>
    BY <1>6 DEF CountStat, Forward, TrackerStops, Environment, Transmit, ResponseArrives,
       TrackStat, OthersIncrementStat, CloseInternalShutdownNotification,
       unchangedByOthers, vars, trackerVars, sharedVars
  <2>2. \A q \in Requests : Stage(q)' = Stage(q)
    BY <1>6, StageStill DEF Still
  <2>3. QED
    BY <2>1, <2>2, IdKept
<1>7. QED
  BY <1>1, <1>2, <1>3, <1>4, <1>5, <1>6 DEF Next, Tracker

-----------------------------------------------------------------------------

\* The clock of a request, from its first send to its last.
ClockOf(r) ==
  /\ orphans[r] = 0
  /\ Stage(r) # "tracked" => timer[r] = 0
  /\ Stage(r) \in {"new"} \union Unsent => handlers[r] = 0
  /\ Stage(r) = "tracked" =>
       timer[r] + handlers[r] + requestTimeouts[requestId[r]] = 1

ClockInv == \A r \in SentOnce : ClockOf(r)

LEMMA ClockInit == Init => ClockInv
BY DEF Init, ClockInv, ClockOf, Stage, SentOnce, Unsent

LEMMA ClockTypes ==
  ASSUME NotifyInv
  PROVE  /\ timer \in [Requests -> {0, 1}] /\ orphans \in [Requests -> Nat]
         /\ handlers \in [Requests -> Nat] /\ requestTimeouts \in [Ids -> Nat]
         /\ requestId \in [Requests -> Ids] /\ nextRequestId \in Nat
BY DEF NotifyInv, TypeOK, TimerTypes, TrackerTypes, Ids

\* A call whose clock a step leaves alone.
LEMMA ClockKept ==
  ASSUME NEW r \in SentOnce, ClockOf(r),
         \/ Stage(r)' = Stage(r)
         \/ Stage(r) \in {"new"} \union Unsent /\ Stage(r)' \in Unsent
         \/ Stage(r)' \in {"returned", "done"} /\ Stage(r) # "tracked",
         timer'[r] = timer[r], orphans'[r] = orphans[r], handlers'[r] = handlers[r],
         Stage(r) = "tracked" =>
           requestTimeouts'[requestId'[r]] = requestTimeouts[requestId[r]]
  PROVE  ClockOf(r)'
BY DEF ClockOf, Unsent

LEMMA ClockCaller ==
  ASSUME NotifyInv, NotifyInv', ClockInv, NEW r \in Requests, Caller(r)
  PROVE  ClockInv'
<1>1. UNCHANGED <<timerVars, requestId, requestTimeouts>>
  BY DEF Caller, SendRequest, CountSent, EnqueueRequest, Return, sharedVars
<1>2. ASSUME NEW q \in SentOnce PROVE ClockOf(q)'
  <2>1. \/ Stage(q)' = Stage(q)
        \/ Stage(q) \in {"new"} \union Unsent /\ Stage(q)' \in Unsent
        \/ Stage(q)' \in {"returned", "done"} /\ Stage(q) # "tracked"
    BY StageSendRequest, StageCountSent, StageEnqueueRequest, StageReturn
       DEF Caller, Moves, Unsent, SentOnce
  <2>2. QED
    BY <1>1, <2>1, ClockKept DEF ClockInv, timerVars
<1>3. QED
  BY <1>2 DEF ClockInv

\* Expiries of other requests go by other ids.
LEMMA ClockOther ==
  ASSUME NotifyInv, IdInv, NEW r \in Requests, NEW q \in Requests \ {r},
         Stage(r) = "tracked"
  PROVE  requestId[r] # requestId[q]
BY DEF IdInv

LEMMA ClockTimer ==
  ASSUME NotifyInv, IdInv, ClockInv, NEW r \in Requests, Timer(r)
  PROVE  ClockInv'
<1>1. UNCHANGED requestId /\ \A q \in Requests : Stage(q)' = Stage(q)
  <2>1. UNCHANGED requestId
    BY DEF Timer, TimerFires, handleRequestTimeout
  <2>2. QED
    BY <2>1, StageStill DEF Still
<1>2. /\ timer \in [Requests -> {0, 1}] /\ orphans \in [Requests -> Nat]
      /\ handlers \in [Requests -> Nat] /\ requestTimeouts \in [Ids -> Nat]
      /\ requestId \in [Requests -> Ids]
  BY ClockTypes
<1>3. ASSUME NEW q \in SentOnce PROVE ClockOf(q)'
  <2>1. q \in Requests /\ ClockOf(q)
    BY DEF SentOnce, ClockInv
  <2>2. CASE q # r
    <3>1. timer'[q] = timer[q] /\ orphans'[q] = orphans[q] /\ handlers'[q] = handlers[q]
      BY <1>2, <2>1, <2>2 DEF Timer, TimerFires, handleRequestTimeout
    <3>2. Stage(q) = "tracked" => requestTimeouts'[requestId[q]] = requestTimeouts[requestId[q]]
      <4>1. Stage(q) = "tracked" => requestId[q] # requestId[r]
        BY <2>1, <2>2, ClockOther
      <4>2. QED
        BY <1>2, <2>1, <4>1 DEF Timer, TimerFires, handleRequestTimeout, sharedVars
    <3>3. QED
      BY <1>1, <2>1, <3>1, <3>2, ClockKept
  <2>3. CASE q = r /\ TimerFires(r)
    <3>1. orphans[r] = 0
      BY <2>1, <2>3 DEF ClockOf
    <3>2. timer[r] = 1 /\ timer'[r] = 0 /\ UNCHANGED <<orphans, requestTimeouts>>
      BY <1>2, <2>1, <2>3, <3>1 DEF TimerFires, sharedVars
    <3>3. handlers'[r] = handlers[r] + 1
      BY <1>2, <2>3 DEF TimerFires
    <3>4. Stage(r) = "tracked" /\ Stage(r)' = "tracked"
      BY <1>1, <2>1, <2>3, <3>2 DEF ClockOf
    <3>5. timer[r] + handlers[r] + requestTimeouts[requestId[r]] = 1
      BY <2>1, <2>3, <3>4 DEF ClockOf
    <3>6. handlers[r] \in Nat /\ requestTimeouts[requestId[r]] \in Nat
      BY <1>2
    <3>7. timer'[r] + handlers'[r] + requestTimeouts'[requestId'[r]] = 1
      BY <1>1, <3>2, <3>3, <3>5, <3>6
    <3>8. QED
      BY <2>3, <3>1, <3>2, <3>4, <3>7 DEF ClockOf, Unsent
  <2>4. CASE q = r /\ handleRequestTimeout(r)
    <3>1. /\ handlers[r] > 0 /\ handlers'[r] = handlers[r] - 1
          /\ requestTimeouts'[requestId[r]] = requestTimeouts[requestId[r]] + 1
          /\ UNCHANGED <<timer, orphans>>
      BY <1>2, <2>4 DEF handleRequestTimeout
    <3>2. /\ handlers[r] \in Nat /\ requestTimeouts[requestId[r]] \in Nat
          /\ timer[r] \in Nat
      BY <1>2
    <3>3. Stage(r) \notin {"new"} \union Unsent
      BY <2>1, <2>4, <3>1, <3>2 DEF ClockOf
    <3>4. Stage(r) = "tracked" =>
            timer'[r] + handlers'[r] + requestTimeouts'[requestId'[r]] = 1
      <4>1. Stage(r) = "tracked" => timer[r] + handlers[r] + requestTimeouts[requestId[r]] = 1
        BY <2>1, <2>4 DEF ClockOf
      <4>2. QED
        BY <1>1, <3>1, <3>2, <4>1
    <3>5. QED
      BY <1>1, <2>1, <2>4, <3>1, <3>3, <3>4 DEF ClockOf
  <2>5. QED
    BY <2>2, <2>3, <2>4 DEF Timer
<1>4. QED
  BY <1>3 DEF ClockInv

LEMMA ClockAccept ==
  ASSUME NotifyInv, NotifyInv', IdInv, ClockInv, AcceptRequest
  PROVE  ClockInv'
<1>1. PICK r \in Requests :
        /\ r = Head(requestsFromClients)
        /\ Stage(r) = "queued" /\ Stage(r)' = "tracked"
        /\ \A q \in Requests \ {r} : Stage(q)' = Stage(q)
  BY StageAccept
<1>2. r \in Pending
  BY <1>1, StageMeans DEF Pending, WithoutId
<1>3. PICK id \in Ids : id = NextId(nextRequestId) /\ id = nextRequestId + 1
  <2>1. NextId(nextRequestId) \in Ids
    BY NextIdType DEF NotifyInv, TypeOK, TrackerTypes
  <2>2. QED
    BY <1>2, <2>1, NextIdIsNew DEF NotifyInv, IdsLeadBack
<1>4. /\ requestId' = [requestId EXCEPT ![r] = id]
      /\ orphans' = [orphans EXCEPT ![r] = @ + timer[r]]
      /\ timer' = [timer EXCEPT ![r] = 1]
      /\ UNCHANGED <<handlers, requestTimeouts>>
  BY <1>1, <1>3 DEF AcceptRequest, startTimer
<1>5. /\ timer \in [Requests -> {0, 1}] /\ orphans \in [Requests -> Nat]
      /\ handlers \in [Requests -> Nat] /\ requestTimeouts \in [Ids -> Nat]
      /\ requestId \in [Requests -> Ids] /\ nextRequestId \in Nat
  BY ClockTypes
<1>6. requestTimeouts[id] = 0
  BY <1>3, <1>5 DEF IdInv
<1>7. ASSUME NEW q \in SentOnce PROVE ClockOf(q)'
  <2>1. q \in Requests /\ ClockOf(q)
    BY DEF SentOnce, ClockInv
  <2>2. CASE q # r
    BY <1>1, <1>4, <1>5, <2>1, <2>2, ClockKept
  <2>3. CASE q = r
    <3>1. orphans[r] = 0 /\ timer[r] = 0 /\ handlers[r] = 0
      BY <1>1, <2>1, <2>3 DEF ClockOf, Unsent
    <3>2. /\ orphans'[r] = 0 /\ timer'[r] = 1 /\ handlers'[r] = 0
          /\ requestId'[r] = id /\ requestTimeouts'[id] = 0
      BY <1>4, <1>5, <1>6, <3>1
    <3>3. QED
      BY <1>1, <2>3, <3>2 DEF ClockOf, Unsent
  <2>4. QED
    BY <2>2, <2>3
<1>8. QED
  BY <1>7 DEF ClockInv

LEMMA ClockReceiveResponse ==
  ASSUME NotifyInv, ClockInv, ReceiveResponse
  PROVE  ClockInv'
<1>1. UNCHANGED <<requestId, requestTimeouts>>
  BY DEF ReceiveResponse
<1>2. CASE DropResponse
  BY <1>1, <1>2, ClockKept DEF DropResponse, ClockInv, SentOnce, timerVars
<1>3. ASSUME NEW r \in Requests, TakeResponse(r) PROVE ClockInv'
  <2>1. /\ timer' = [timer EXCEPT ![r] = 0] /\ UNCHANGED <<orphans, handlers>>
        /\ Stage(r)' = "releasing" /\ \A q \in Requests \ {r} : Stage(q)' = Stage(q)
    BY <1>3 DEF TakeResponse, Moves, stopTimer
  <2>2. timer \in [Requests -> {0, 1}]
    BY ClockTypes
  <2>3. ASSUME NEW q \in SentOnce PROVE ClockOf(q)'
    <3>1. q \in Requests /\ ClockOf(q)
      BY DEF SentOnce, ClockInv
    <3>2. CASE q = r
      BY <2>1, <2>2, <3>1, <3>2 DEF ClockOf, Unsent
    <3>3. CASE q # r
      BY <1>1, <2>1, <2>2, <3>1, <3>3, ClockKept
    <3>4. QED
      BY <3>2, <3>3
  <2>4. QED
    BY <2>3 DEF ClockInv
<1>4. QED
  BY <1>2, <1>3, StageReceiveResponse

LEMMA OnlyOne ==
  ASSUME NEW a \in Nat, NEW b \in Nat, NEW c \in Nat, a + b + c = 1, c > 0
  PROVE  a = 0 /\ b = 0 /\ c = 1
OBVIOUS

LEMMA ClockReceiveTimeout ==
  ASSUME NotifyInv, IdInv, ClockInv, NEW id \in Ids, ReceiveTimeout(id)
  PROVE  ClockInv'
<1>1. /\ UNCHANGED requestId /\ requestTimeouts[id] > 0
      /\ requestTimeouts' = [requestTimeouts EXCEPT ![id] = @ - 1]
  BY DEF ReceiveTimeout
<1>2. /\ timer \in [Requests -> {0, 1}] /\ orphans \in [Requests -> Nat]
      /\ handlers \in [Requests -> Nat] /\ requestTimeouts \in [Ids -> Nat]
      /\ requestId \in [Requests -> Ids]
  BY ClockTypes
<1>3. CASE DropTimeout /\ \A r \in Requests : Stage(r) = "tracked" => requestId[r] # id
  <2>1. ASSUME NEW q \in SentOnce PROVE ClockOf(q)'
    <3>1. q \in Requests /\ ClockOf(q)
      BY DEF SentOnce, ClockInv
    <3>2. Stage(q)' = Stage(q) /\ UNCHANGED <<timer, orphans, handlers>>
      BY <1>3, <3>1 DEF DropTimeout, timerVars
    <3>3. Stage(q) = "tracked" => requestTimeouts'[requestId'[q]] = requestTimeouts[requestId[q]]
      BY <1>1, <1>2, <1>3, <3>1
    <3>4. QED
      BY <3>1, <3>2, <3>3, ClockKept
  <2>2. QED
    BY <2>1 DEF ClockInv
<1>4. ASSUME NEW r \in Requests, Stage(r) = "tracked", requestId[r] = id,
             SendAgain(r) \/ TimeOut(r)
      PROVE  ClockInv'
  <2>1. ASSUME NEW q \in SentOnce, q # r PROVE ClockOf(q)'
    <3>1. q \in Requests /\ ClockOf(q)
      BY DEF SentOnce, ClockInv
    <3>2. /\ Stage(q)' = Stage(q)
          /\ timer'[q] = timer[q] /\ orphans'[q] = orphans[q] /\ handlers'[q] = handlers[q]
      BY <1>2, <1>4, <2>1, <3>1
         DEF SendAgain, Retry, startTimer, TimeOut, Moves, timerVars
    <3>3. requestTimeouts'[requestId'[q]] = requestTimeouts[requestId[q]]
      <4>1. requestId[q] # id
        BY <1>4, <2>1, <3>1, ClockOther
      <4>2. QED
        BY <1>1, <1>2, <3>1, <4>1
    <3>4. QED
      BY <3>1, <3>2, <3>3, ClockKept
  <2>2. ASSUME r \in SentOnce PROVE ClockOf(r)'
    <3>1. timer[r] + handlers[r] + requestTimeouts[id] = 1 /\ orphans[r] = 0
      BY <1>4, <2>2 DEF ClockInv, ClockOf
    <3>2. timer[r] \in Nat /\ handlers[r] \in Nat /\ requestTimeouts[id] \in Nat
      BY <1>2
    <3>3. timer[r] = 0 /\ handlers[r] = 0 /\ requestTimeouts[id] = 1
      BY <1>1, <3>1, <3>2, OnlyOne
    <3>4. requestTimeouts'[requestId'[r]] = 0
      BY <1>1, <1>2, <1>4, <3>3
    <3>5. CASE SendAgain(r)
      <4>1. timer'[r] = 1 /\ orphans'[r] = 0 /\ handlers'[r] = 0
        BY <1>2, <3>1, <3>3, <3>5 DEF SendAgain, Retry, startTimer
      <4>2. Stage(r)' = "tracked"
        BY <1>4, <3>5 DEF SendAgain
      <4>3. QED
        BY <3>4, <4>1, <4>2 DEF ClockOf, Unsent
    <3>6. CASE TimeOut(r)
      BY <3>1, <3>3, <3>6 DEF TimeOut, Moves, timerVars, ClockOf, Unsent
    <3>7. QED
      BY <1>4, <3>5, <3>6
  <2>3. QED
    BY <2>1, <2>2 DEF ClockInv
<1>5. QED
  BY <1>3, <1>4, StageReceiveTimeout

LEMMA ClockQuiet ==
  ASSUME NotifyInv, ClockInv,
         CountStat \/ Forward \/ TrackerStops \/ Notify \/ Environment \/ UNCHANGED vars
  PROVE  ClockInv'
<1>1. UNCHANGED <<timer, orphans, handlers, requestId, requestTimeouts>>
  BY DEF CountStat, Forward, TrackerStops, Notify, Environment, Transmit, ResponseArrives,
     TrackStat, OthersIncrementStat, CloseInternalShutdownNotification, unchangedByOthers,
     vars, timerVars, sharedVars
<1>2. ASSUME NEW q \in Requests
      PROVE  \/ Stage(q)' = Stage(q)
             \/ Stage(q)' = "returned" /\ Stage(q) = "releasing"
  BY StageStill, StageNotify DEF Still
<1>3. QED
  BY <1>1, <1>2, ClockKept DEF ClockInv, SentOnce

LEMMA ClockStep ==
  ASSUME NotifyInv, NotifyInv', IdInv, ClockInv, [Next]_vars
  PROVE  ClockInv'
BY ClockCaller, ClockTimer, ClockAccept, ClockReceiveResponse, ClockReceiveTimeout,
   ClockQuiet DEF Next, Tracker

-----------------------------------------------------------------------------
(***************************************************************************)
(* What a call gets.                                                       *)
(***************************************************************************)

CallInv == NotifyInv /\ MutexInv /\ BudgetInv /\ AnswerInv /\ IdInv /\ ClockInv

LEMMA CallInit == Init => CallInv
BY NotifyInit, MutexInit, BudgetInit, AnswerInit, IdInit, ClockInit DEF CallInv

LEMMA CallStep == CallInv /\ [Next]_vars => CallInv'
<1> SUFFICES ASSUME CallInv, [Next]_vars PROVE CallInv'
  OBVIOUS
<1>1. NotifyInv'
  BY NotifyStep DEF CallInv
<1>2. BudgetInv'
  BY <1>1, BudgetStep DEF CallInv
<1>3. QED
  BY <1>1, <1>2, MutexStep, AnswerStep, IdStep, ClockStep DEF CallInv

LEMMA CallAlways == Spec => []CallInv
BY CallInit, CallStep, PTL DEF Spec

\* An outstanding request has used up one send for each retry spent, and a caller
\* is told of a timeout only after Retries + 1 sends.
THEOREM Budget == Spec => []RetryBudget
<1>1. CallInv => RetryBudget
  <2> SUFFICES ASSUME CallInv, NEW r \in Requests
      PROVE  /\ Tracked(r) =>
                  attempts[r] + retriesRemaining[r] + (IF Forwarding(r) THEN 1 ELSE 0)
                    = Retries + 1
             /\ trackerPc = "countExhausted" /\ inHand = r => attempts[r] = Retries + 1
    BY DEF RetryBudget
  <2>1. NotifyInv /\ BudgetOf(r)
    BY DEF CallInv, BudgetInv
  <2>2. QED
    BY <2>1, StageMeans DEF BudgetOf
<1>2. QED
  BY <1>1, CallAlways, PTL

\* A request the tracker has to deal with holds the mutex of its client.
THEOREM OneInFlight == Spec => []OneInFlightPerClient
<1>1. CallInv => OneInFlightPerClient
  <2> SUFFICES ASSUME CallInv, NEW r \in Requests, Queued(r) \/ Tracked(r) \/ Releasing(r)
      PROVE  \E k \in Clients : mutex[k] = r
    BY DEF OneInFlightPerClient
  <2>1. Stage(r) \in {"queued", "tracked", "releasing"}
    BY StageMeans DEF CallInv
  <2>2. QED
    BY <2>1 DEF CallInv, MutexInv
<1>2. QED
  BY <1>1, CallAlways, PTL

\* The response a caller gets carries the id of its own request, which was sent.
THEOREM OurResponse == Spec => []ResponseIsOurs
<1>1. CallInv => ResponseIsOurs
  BY DEF CallInv, AnswerInv, AnswerOf, ResponseIsOurs
<1>2. QED
  BY <1>1, CallAlways, PTL

\* A call returns with a response or an error, never both and never neither.
THEOREM ResponseOrError == Spec => []EitherResponseOrError
<1>1. CallInv => EitherResponseOrError
  <2> SUFFICES ASSUME CallInv, NEW r \in SentOnce, pc[r] = "returned"
      PROVE  (response[r] # NoResponse) # transportError[r]
    BY DEF EitherResponseOrError
  <2>1. Stage(r) = "returned"
    BY DEF Stage
  <2>2. QED
    BY <2>1 DEF CallInv, AnswerInv, AnswerOf
<1>2. QED
  BY <1>1, CallAlways, PTL

\* An outstanding request has one clock going, and no other request has any.
THEOREM SingleClock == Spec => []OneClock
<1>1. CallInv => OneClock
  <2> SUFFICES ASSUME CallInv, NEW r \in SentOnce
      PROVE  /\ Tracked(r) =>
                  timer[r] + orphans[r] + handlers[r] + requestTimeouts[requestId[r]] = 1
             /\ ~Tracked(r) => timer[r] = 0 /\ orphans[r] = 0
    BY DEF OneClock
  <2>1. r \in Requests /\ NotifyInv /\ ClockOf(r)
    BY DEF CallInv, ClockInv, SentOnce
  <2>2. Tracked(r) <=> Stage(r) = "tracked"
    BY <2>1, StageMeans
  <2>3. orphans[r] = 0 /\ timer[r] \in Nat /\ handlers[r] \in Nat
    BY <2>1, ClockTypes DEF ClockOf
  <2>4. timer[r] + orphans[r] = timer[r]
    BY <2>3
  <2>5. QED
    BY <2>1, <2>2, <2>3, <2>4 DEF ClockOf
<1>2. QED
  BY <1>1, CallAlways, PTL

\* A request is sent again, or given up, only once the timer of its last send has
\* run out.
THEOREM ResendSpaced == Spec => ResendWhenTimerRanOut
<1>1. ASSUME CallInv, [Next]_vars, NEW r \in SentOnce PROVE ~TimedOutEarly(r)
  <2>1. SUFFICES ASSUME TimedOutEarly(r) PROVE FALSE
    OBVIOUS
  <2>2. r \in Requests /\ NotifyInv /\ ClockOf(r) /\ IdInv
    BY <1>1 DEF CallInv, ClockInv, SentOnce
  <2>3. /\ trackerPc = "select" /\ timer[r] # 0 /\ inHand' = r
        /\ trackerPc' \in {"countTimedOut", "countExhausted"}
    BY <2>1 DEF TimedOutEarly
  <2>4. PICK id \in Ids : ReceiveTimeout(id)
    <3>1. Tracker
      BY <1>1, <2>3 DEF Next, Caller, SendRequest, CountSent, EnqueueRequest, Return,
         Timer, TimerFires, handleRequestTimeout, Environment, Transmit, ResponseArrives,
         TrackStat, OthersIncrementStat, CloseInternalShutdownNotification,
         unchangedByOthers, vars, trackerVars
    <3>2. QED
      BY <2>3, <3>1 DEF Tracker, AcceptRequest, ReceiveResponse, CountStat, AfterCount,
         Forward, Notify, TrackerStops
  <2>5. Stage(r) = "tracked" /\ requestId[r] = id
    BY <2>2, <2>3, <2>4, StageReceiveTimeout DEF DropTimeout, SendAgain, Retry, TimeOut
  <2>6. timer[r] + handlers[r] + requestTimeouts[id] = 1 /\ requestTimeouts[id] > 0
    BY <2>2, <2>4, <2>5 DEF ClockOf, ReceiveTimeout
  <2>7. timer[r] \in Nat /\ handlers[r] \in Nat /\ requestTimeouts[id] \in Nat
    BY <2>2, ClockTypes
  <2>8. timer[r] = 0
    BY <2>6, <2>7, OnlyOne
  <2>9. QED
    BY <2>3, <2>8
<1>2. CallInv /\ [Next]_vars => [\A r \in SentOnce : ~TimedOutEarly(r)]_vars
  BY <1>1
<1>3. QED
  BY <1>2, CallAlways, PTL DEF Spec, ResendWhenTimerRanOut

-----------------------------------------------------------------------------
(***************************************************************************)
(* The tracker implements RequestService for the requests sent once.       *)
(***************************************************************************)

Busy == {"count", "enqueue", "wait"}

\* What the step does to q, the service does not see.
Unseen(q) ==
  /\ pc'[q] = pc[q] \/ (pc[q] \in Busy /\ pc'[q] \in Busy)
  /\ pc[q] \in {"returned", "done"} => transportError'[q] = transportError[q]
  /\ attempts'[q] = attempts[q]

LEMMA ServiceStutter ==
  ASSUME \A q \in SentOnce : Unseen(q)
  PROVE  UNCHANGED Service!vars
<1>1. UNCHANGED <<callOf, triesOf, outcomeOf>>
  BY DEF Unseen, Busy, callOf, triesOf, outcomeOf
<1>2. QED
  BY <1>1 DEF Service!vars

\* The service sees r alone go on.
LEMMA ServiceMove ==
  ASSUME NEW r \in SentOnce, \A q \in SentOnce \ {r} : Unseen(q),
         NEW to, NEW n, NEW how,
         to = callOf[r]', n = triesOf[r]', how = outcomeOf[r]'
  PROVE  /\ callOf' = [callOf EXCEPT ![r] = to]
         /\ triesOf' = [triesOf EXCEPT ![r] = n]
         /\ outcomeOf' = [outcomeOf EXCEPT ![r] = how]
         /\ to = callOf[r] => UNCHANGED callOf
         /\ n = triesOf[r] => UNCHANGED triesOf
         /\ how = outcomeOf[r] => UNCHANGED outcomeOf
<1>1. \A q \in SentOnce \ {r} : /\ callOf[q]' = callOf[q] /\ triesOf[q]' = triesOf[q]
                                /\ outcomeOf[q]' = outcomeOf[q]
  BY DEF Unseen, Busy, callOf, triesOf, outcomeOf
<1>2. /\ callOf = [q \in SentOnce |-> callOf[q]] /\ callOf' = [q \in SentOnce |-> callOf[q]']
      /\ triesOf = [q \in SentOnce |-> triesOf[q]] /\ triesOf' = [q \in SentOnce |-> triesOf[q]']
      /\ outcomeOf = [q \in SentOnce |-> outcomeOf[q]]
      /\ outcomeOf' = [q \in SentOnce |-> outcomeOf[q]']
  BY DEF callOf, triesOf, outcomeOf
<1>3. /\ callOf' = [callOf EXCEPT ![r] = to] /\ triesOf' = [triesOf EXCEPT ![r] = n]
      /\ outcomeOf' = [outcomeOf EXCEPT ![r] = how]
  BY <1>1, <1>2
<1>4. /\ to = callOf[r] => UNCHANGED callOf
      /\ n = triesOf[r] => UNCHANGED triesOf
      /\ how = outcomeOf[r] => UNCHANGED outcomeOf
  BY <1>1, <1>2
<1>5. QED
  BY <1>3, <1>4

LEMMA ServiceCaller ==
  ASSUME CallInv, CallInv', NEW r \in Requests, Caller(r)
  PROVE  [Service!Next]_Service!vars
<1>1. /\ pc \in [Requests -> CallStates] /\ attempts \in [Requests -> Nat]
      /\ SentOnce \subseteq Requests /\ UNCHANGED transportError
  BY DEF CallInv, NotifyInv, TypeOK, CallTypes, SentOnce, Caller, SendRequest, CountSent,
     EnqueueRequest, Return, resultVars
<1>2. \A q \in SentOnce \ {r} : Unseen(q)
  <2>1. \A q \in Requests \ {r} : pc'[q] = pc[q] /\ attempts'[q] = attempts[q]
    BY <1>1 DEF Caller, SendRequest, CountSent, EnqueueRequest, Return
  <2>2. QED
    BY <1>1, <2>1 DEF Unseen
<1>3. CASE r \notin SentOnce
  BY <1>2, <1>3, ServiceStutter
<1>4. ASSUME r \in SentOnce, NEW k \in Clients, SendRequest(r, k) PROVE Service!Begin(r)
  <2>1. pc[r] = "new" /\ pc' = [pc EXCEPT ![r] = "count"]
        /\ attempts' = [attempts EXCEPT ![r] = 0]
    BY <1>4 DEF SendRequest, SentOnce
  <2>2. attempts[r] = 0
    BY <2>1 DEF CallInv, BudgetInv, BudgetOf, Stage
  <2>3. /\ callOf[r] = "new" /\ callOf[r]' = "busy"
        /\ triesOf[r] = 0 /\ triesOf[r]' = 0
        /\ outcomeOf[r] = "none" /\ outcomeOf[r]' = "none"
    BY <1>1, <1>4, <2>1, <2>2 DEF callOf, triesOf, outcomeOf
  <2>4. callOf' = [callOf EXCEPT ![r] = "busy"] /\ UNCHANGED <<triesOf, outcomeOf>>
    BY <1>2, <1>4, <2>3, ServiceMove
  <2>5. QED
    BY <2>3, <2>4 DEF Service!Begin
<1>5. CASE CountSent(r) \/ EnqueueRequest(r)
  <2>1. /\ pc[r] \in Busy /\ pc'[r] \in Busy /\ pc[r] \notin {"returned", "done"}
        /\ UNCHANGED attempts
    BY <1>1, <1>5 DEF CountSent, EnqueueRequest, Busy
  <2>2. QED
    BY <1>2, <2>1, ServiceStutter DEF Unseen
<1>6. ASSUME r \in SentOnce, Return(r) PROVE Service!Return(r)
  <2>1. pc[r] = "returned" /\ pc' = [pc EXCEPT ![r] = "done"] /\ UNCHANGED attempts
    BY <1>6 DEF Return
  <2>2. /\ callOf[r] = "returned" /\ callOf[r]' = "done"
        /\ triesOf[r]' = triesOf[r] /\ outcomeOf[r]' = outcomeOf[r]
    BY <1>1, <1>6, <2>1 DEF callOf, triesOf, outcomeOf
  <2>3. PICK n, how : n = triesOf[r] /\ how = outcomeOf[r]
    OBVIOUS
  <2>4. callOf' = [callOf EXCEPT ![r] = "done"] /\ UNCHANGED <<triesOf, outcomeOf>>
    BY <1>2, <1>6, <2>2, <2>3, ServiceMove
  <2>5. QED
    BY <2>2, <2>4 DEF Service!Return
<1>7. QED
  BY <1>3, <1>4, <1>5, <1>6 DEF Caller, Service!Next

LEMMA ServiceForward ==
  ASSUME CallInv, CallInv', Forward
  PROVE  [Service!Next]_Service!vars
<1>1. PICK r \in Requests : r = inHand
  BY DEF Forward, CallInv, NotifyInv, IdsLeadBack, InHandMatches, TypeOK, TrackerTypes
<1>2. /\ attempts' = [attempts EXCEPT ![r] = @ + 1]
      /\ trackerPc = "forward" /\ UNCHANGED <<pc, transportError>>
  BY <1>1 DEF Forward, callVars, resultVars
<1>3. attempts \in [Requests -> Nat] /\ SentOnce \subseteq Requests
  BY DEF CallInv, NotifyInv, TypeOK, CallTypes, SentOnce
<1>4. \A q \in SentOnce \ {r} : Unseen(q)
  BY <1>2, <1>3 DEF Unseen
<1>5. CASE r \notin SentOnce
  BY <1>4, <1>5, ServiceStutter
<1>6. CASE r \in SentOnce
  <2>1. Forwarding(r) /\ BudgetOf(r) /\ NotifyInv
    BY <1>1, <1>2 DEF Forwarding, CallInv, BudgetInv
  <2>2. Stage(r) = "tracked"
    BY <2>1 DEF BudgetOf
  <2>3. pc[r] = "wait"
    BY <2>1, <2>2, StageMeans
  <2>4. attempts[r] <= Retries
    <3>1. attempts[r] + retriesRemaining[r] + 1 = Retries + 1
      BY <2>1, <2>2 DEF BudgetOf
    <3>2. attempts[r] \in Nat /\ retriesRemaining[r] \in 0 .. Retries
      BY DEF CallInv, NotifyInv, TypeOK, CallTypes
    <3>3. QED
      BY <3>1, <3>2
  <2>5. /\ callOf[r] = "busy" /\ callOf[r]' = "busy"
        /\ triesOf[r] = attempts[r] /\ triesOf[r]' = triesOf[r] + 1
        /\ outcomeOf[r] = "none" /\ outcomeOf[r]' = "none"
    BY <1>2, <1>3, <1>6, <2>3 DEF callOf, triesOf, outcomeOf
  <2>6. PICK n : n = triesOf[r] + 1
    OBVIOUS
  <2>7. triesOf' = [triesOf EXCEPT ![r] = n] /\ UNCHANGED <<callOf, outcomeOf>>
    BY <1>4, <1>6, <2>5, <2>6, ServiceMove
  <2>8. Service!Attempt(r)
    BY <2>4, <2>5, <2>6, <2>7 DEF Service!Attempt
  <2>9. QED
    BY <1>6, <2>8 DEF Service!Next, Service!Serve
<1>7. QED
  BY <1>5, <1>6

LEMMA ServiceNotify ==
  ASSUME CallInv, CallInv', Notify
  PROVE  [Service!Next]_Service!vars
<1>1. PICK r \in Requests : r = inHand /\ Stage(r) = "releasing"
  BY StageNotify DEF CallInv
<1>2. /\ pc[r] = "wait" /\ pc' = [pc EXCEPT ![r] = "returned"]
      /\ UNCHANGED <<attempts, transportError>>
  BY <1>1 DEF Notify, resultVars
<1>3. /\ pc \in [Requests -> CallStates] /\ transportError \in [Requests -> BOOLEAN]
      /\ SentOnce \subseteq Requests
  BY DEF CallInv, NotifyInv, TypeOK, CallTypes, SentOnce
<1>4. \A q \in SentOnce \ {r} : Unseen(q)
  BY <1>2, <1>3 DEF Unseen
<1>5. CASE r \notin SentOnce
  BY <1>4, <1>5, ServiceStutter
<1>6. CASE r \in SentOnce
  <2>1. PICK how \in {"timeout", "response"} :
          how = IF transportError[r] THEN "timeout" ELSE "response"
    OBVIOUS
  <2>2. /\ callOf[r] = "busy" /\ callOf[r]' = "returned" /\ outcomeOf[r]' = how
        /\ triesOf[r] = attempts[r] /\ triesOf[r]' = attempts[r]
    BY <1>2, <1>3, <1>6, <2>1 DEF callOf, triesOf, outcomeOf
  <2>3. PICK n : n = attempts[r]
    OBVIOUS
  <2>4. Service!End(r, how)
    BY <1>4, <1>6, <2>2, <2>3, ServiceMove DEF Service!End
  <2>5. CASE transportError[r]
    <3>1. attempts[r] = Retries + 1
      BY <1>6, <2>5 DEF CallInv, AnswerInv, AnswerOf
    <3>2. Service!GiveUp(r)
      BY <2>1, <2>2, <2>4, <2>5, <3>1 DEF Service!GiveUp
    <3>3. QED
      BY <1>6, <3>2 DEF Service!Next, Service!Serve
  <2>6. CASE ~transportError[r]
    <3>1. attempts[r] >= 1 /\ attempts[r] \in Nat
      BY <1>1 DEF CallInv, BudgetInv, BudgetOf, NotifyInv, TypeOK, CallTypes
    <3>2. triesOf[r] > 0
      BY <2>2, <3>1
    <3>3. Service!Answer(r)
      BY <2>1, <2>4, <2>6, <3>2 DEF Service!Answer
    <3>4. QED
      BY <1>6, <3>3 DEF Service!Next, Service!Serve
  <2>7. QED
    BY <2>5, <2>6
<1>7. QED
  BY <1>5, <1>6

LEMMA ServiceQuiet ==
  ASSUME CallInv,
         \/ AcceptRequest \/ ReceiveResponse \/ (\E id \in Ids : ReceiveTimeout(id))
         \/ CountStat \/ TrackerStops \/ Environment \/ (\E r \in Requests : Timer(r))
         \/ UNCHANGED vars
  PROVE  UNCHANGED Service!vars
<1>1. UNCHANGED <<pc, attempts>>
  BY DEF AcceptRequest, ReceiveResponse, ReceiveTimeout, CountStat, TrackerStops,
     Environment, Transmit, ResponseArrives, TrackStat, OthersIncrementStat,
     CloseInternalShutdownNotification, unchangedByOthers, Timer, TimerFires,
     handleRequestTimeout, vars, callVars
<1>2. ASSUME NEW q \in Requests, pc[q] \in {"returned", "done"}
      PROVE  transportError'[q] = transportError[q]
  <2>1. ASSUME NEW id \in Ids, ReceiveTimeout(id)
        PROVE  transportError'[q] = transportError[q]
    <3>1. ASSUME NEW r \in Requests, Stage(r) = "tracked", SendAgain(r) \/ TimeOut(r)
          PROVE  transportError'[q] = transportError[q]
      <4>1. q # r
        <5>1. pc[r] = "wait"
          BY <3>1, StageMeans DEF CallInv
        <5>2. QED
          BY <1>2, <5>1
      <4>2. transportError \in [Requests -> BOOLEAN]
        BY DEF CallInv, NotifyInv, TypeOK, CallTypes
      <4>3. QED
        BY <3>1, <4>1, <4>2 DEF SendAgain, Retry, TimeOut, setTransportError
    <3>2. QED
      BY <2>1, <3>1, StageReceiveTimeout DEF DropTimeout, CallInv
  <2>2. CASE ~\E id \in Ids : ReceiveTimeout(id)
    BY <2>2 DEF AcceptRequest, ReceiveResponse, CountStat, TrackerStops,
       Environment, Transmit, ResponseArrives, TrackStat, OthersIncrementStat,
       CloseInternalShutdownNotification, unchangedByOthers, Timer, TimerFires,
       handleRequestTimeout, vars, resultVars
  <2>3. QED
    BY <2>1, <2>2
<1>3. QED
  BY <1>1, <1>2, ServiceStutter DEF Unseen, SentOnce

LEMMA ServiceInit == Init => Service!Init
<1> SUFFICES ASSUME Init PROVE Service!Init
  OBVIOUS
<1>1. /\ callOf = [r \in SentOnce |-> "new"] /\ triesOf = [r \in SentOnce |-> 0]
      /\ outcomeOf = [r \in SentOnce |-> "none"]
  BY DEF Init, callOf, triesOf, outcomeOf, SentOnce
<1>2. QED
  BY <1>1 DEF Service!Init

\* For the requests that are sent once, the tracker, its queues and its timers take
\* only steps that the service which the caller is promised allows, whatever happens
\* to the others (ImplementsService, less its fairness).
THEOREM Implements == Spec => Service!Spec
<1>1. CallInv /\ CallInv' /\ [Next]_vars => [Service!Next]_Service!vars
  BY ServiceCaller, ServiceForward, ServiceNotify, ServiceQuiet DEF Next, Tracker
<1>2. QED
  BY <1>1, ServiceInit, CallAlways, PTL DEF Spec, Service!Spec
=============================================================================
