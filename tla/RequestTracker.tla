--------------------------- MODULE RequestTracker ---------------------------
(***************************************************************************)
(* The request path of a ClientContext: the goroutines that call           *)
(* V2cClient.SendRequest, the request tracker goroutine (trackRequests),   *)
(* the timer goroutines of time.AfterFunc, and the channels between them.  *)
(*                                                                         *)
(* A goroutine advances by one action between two points where it can      *)
(* block or where another goroutine can see its writes: a channel          *)
(* operation, the client's mutex, a call of incrementStat (a send on a     *)
(* buffered channel, so it blocks when that channel is full).              *)
(*                                                                         *)
(* A request object is in at most one SendRequest call at a time, so the   *)
(* calling goroutine is named by the request it sends.  The socket, the    *)
(* remote agents, the receiver goroutine and the stats goroutine appear    *)
(* here only as the environment of this component; ContextLifecycle        *)
(* models the goroutines among them.                                       *)
(***************************************************************************)
EXTENDS Integers, Sequences, FiniteSets

CONSTANTS
  Requests,     \* communityRequest objects
  Clients,      \* V2cClient objects
  Retries,      \* V2cClient.Retries
  maxTargets,   \* capacity of requestsFromClients and outboundFlowControlQueue
  ResponseCap,  \* capacity of responsesFromAgents (100 in the code)
  StatCap,      \* capacity of statIncrementNotifications (100 in the code)
  IdSpace,      \* number of request ids (2^32 in the code)
  MaxSends,     \* bound: calls of SendRequest in one behaviour
  Reusable,     \* requests that may be passed to SendRequest again
  MayShutdown,  \* may the context be shut down?
  NoRequest,    \* Go's nil, for a request
  NoResponse    \* Go's nil, for a response

Ids == 0 .. IdSpace - 1

ASSUME ConstantsAssumption ==
  /\ IsFiniteSet(Requests)
  /\ Retries \in Nat
  /\ maxTargets \in Nat \ {0}
  /\ ResponseCap \in Nat \ {0}
  /\ StatCap \in Nat \ {0}
  /\ IdSpace \in Nat \ {0}
  /\ Reusable \subseteq Requests
  /\ MayShutdown \in BOOLEAN
  /\ NoRequest \notin Requests
  /\ NoResponse \notin Ids

\* Ids wrap around at 2^32.  A wrapped id could equal that of a request still
\* outstanding, so every result is about runs with fewer calls than ids.
ASSUME NoWrapAssumption == MaxSends \in Nat /\ MaxSends < IdSpace

VARIABLES
  \* The goroutines that call SendRequest
  pc,                    \* where the call that sends each request is
  mutex,                 \* V2cClient.mutex: the request being sent, or NoRequest
  \* communityRequest
  requestId,
  retriesRemaining,
  response,              \* id carried by the response attached, or NoResponse
  transportError,        \* has TimeoutError been set?
  timer,                 \* 1 while the timer req.timer points to is running
  orphans,               \* running timers of the request that req.timer lost
  handlers,              \* handleTimeout goroutines yet to read the request id
  \* trackRequests
  trackerPc,
  inHand,                \* the request it is working on, or NoRequest
  nextRequestId,
  outstandingRequests,   \* the map, total: NoRequest where Go returns nil
  \* Channels
  requestsFromClients,
  responsesFromAgents,   \* the request ids the responses carry
  requestTimeouts,       \* unbuffered: goroutines blocked sending each id
  outboundFlowControlQueue,
  statIncrements,        \* notifications in statIncrementNotifications
  shutdown,              \* has internalShutdownNotification been closed?
  \* Environment and history
  wire,                  \* request ids written to the socket so far
  sends,                 \* history: calls of SendRequest so far
  attempts               \* history: times this call's message was forwarded

callVars    == <<pc, mutex, sends>>
timerVars   == <<timer, orphans, handlers>>
resultVars  == <<response, transportError>>
trackerVars == <<trackerPc, inHand, nextRequestId, outstandingRequests>>
sharedVars  == <<requestsFromClients, responsesFromAgents, requestTimeouts,
                 outboundFlowControlQueue, statIncrements, shutdown>>

vars == <<callVars, timerVars, resultVars, trackerVars, sharedVars,
          requestId, retriesRemaining, wire, attempts>>

-----------------------------------------------------------------------------

Init ==
  /\ pc = [r \in Requests |-> "new"]
  /\ mutex = [k \in Clients |-> NoRequest]
  /\ requestId = [r \in Requests |-> 0]
  /\ retriesRemaining = [r \in Requests |-> 0]
  /\ response = [r \in Requests |-> NoResponse]
  /\ transportError = [r \in Requests |-> FALSE]
  /\ timer = [r \in Requests |-> 0]
  /\ orphans = [r \in Requests |-> 0]
  /\ handlers = [r \in Requests |-> 0]
  /\ trackerPc = "select"
  /\ inHand = NoRequest
  /\ nextRequestId = 0
  /\ outstandingRequests = [id \in Ids |-> NoRequest]
  /\ requestsFromClients = <<>>
  /\ responsesFromAgents = <<>>
  /\ requestTimeouts = [id \in Ids |-> 0]
  /\ outboundFlowControlQueue = <<>>
  /\ statIncrements = 0
  /\ shutdown = FALSE
  /\ wire = {}
  /\ sends = 0
  /\ attempts = [r \in Requests |-> 0]

\* Mutation: a notification that finds the channel full is dropped.
incrementStatOrDrop ==
  statIncrements' = IF statIncrements < StatCap THEN statIncrements + 1 ELSE statIncrements

incrementStat ==
  /\ statIncrements < StatCap
  /\ statIncrements' = statIncrements + 1

-----------------------------------------------------------------------------
(***************************************************************************)
(* SendRequest, in the goroutine of the caller.                            *)
(***************************************************************************)

setRetriesRemaining(r) == retriesRemaining' = [retriesRemaining EXCEPT ![r] = Retries]

\* Mutation: the mutex is not waited for.
LockAnyway(k, r) == mutex' = [mutex EXCEPT ![k] = r]

Lock(k, r) == mutex[k] = NoRequest /\ mutex' = [mutex EXCEPT ![k] = r]

\* Take the client's mutex (every other call through it waits) and set up the
\* request.  Neither the response nor the error of an earlier call is cleared.
SendRequest(r, k) ==
  /\ pc[r] = "new" \/ (r \in Reusable /\ pc[r] = "done")
  /\ sends < MaxSends
  /\ Lock(k, r)
  /\ setRetriesRemaining(r)
  /\ pc' = [pc EXCEPT ![r] = "count"]
  /\ sends' = sends + 1
  /\ attempts' = [attempts EXCEPT ![r] = 0]
  /\ UNCHANGED <<timerVars, resultVars, trackerVars, sharedVars, requestId, wire>>

CountSent(r) ==
  /\ pc[r] = "count"
  /\ incrementStat
  /\ pc' = [pc EXCEPT ![r] = "enqueue"]
  /\ UNCHANGED <<mutex, sends, timerVars, resultVars, trackerVars, requestId,
                 requestsFromClients, responsesFromAgents, requestTimeouts,
                 outboundFlowControlQueue, shutdown, retriesRemaining, wire, attempts>>

\* Hand the request to the tracker, then block in wait() until notify().
EnqueueRequest(r) ==
  /\ pc[r] = "enqueue"
  /\ Len(requestsFromClients) < maxTargets
  /\ requestsFromClients' = Append(requestsFromClients, r)
  /\ pc' = [pc EXCEPT ![r] = "wait"]
  /\ UNCHANGED <<mutex, sends, timerVars, resultVars, trackerVars, requestId,
                 responsesFromAgents, requestTimeouts, outboundFlowControlQueue,
                 statIncrements, shutdown, retriesRemaining, wire, attempts>>

\* The deferred Unlock; the caller has read Response() and TransportError().
Return(r) ==
  /\ pc[r] = "returned"
  /\ pc' = [pc EXCEPT ![r] = "done"]
  /\ mutex' = [k \in Clients |-> IF mutex[k] = r THEN NoRequest ELSE mutex[k]]
  /\ UNCHANGED <<sends, timerVars, resultVars, trackerVars, sharedVars,
                 requestId, retriesRemaining, wire, attempts>>

-----------------------------------------------------------------------------
(***************************************************************************)
(* Timers.                                                                 *)
(***************************************************************************)

\* Mutation: the timer is started twice.
startTimerTwice(r) ==
  /\ orphans' = [orphans EXCEPT ![r] = @ + timer[r] + 1]
  /\ timer' = [timer EXCEPT ![r] = 1]
  /\ UNCHANGED handlers

\* Mutation: a timer is started for the first send only.
startTimerOnce(r) ==
  /\ timer' = [timer EXCEPT ![r] = IF attempts[r] = 0 THEN 1 ELSE 0]
  /\ UNCHANGED <<orphans, handlers>>

\* time.AfterFunc.  A timer still running is not stopped, only forgotten.
startTimer(r) ==
  /\ orphans' = [orphans EXCEPT ![r] = @ + timer[r]]
  /\ timer' = [timer EXCEPT ![r] = 1]
  /\ UNCHANGED handlers

\* Mutation: the timer of an answered request runs on.
stopTimerNot(r) == UNCHANGED timerVars

\* Has no effect on a timer that has already fired.
stopTimer(r) ==
  /\ timer' = [timer EXCEPT ![r] = 0]
  /\ UNCHANGED <<orphans, handlers>>

\* A running timer of r expires: the runtime starts handleTimeout on a
\* goroutine of its own.
TimerFires(r) ==
  /\ \/ timer[r] = 1 /\ timer' = [timer EXCEPT ![r] = 0] /\ UNCHANGED orphans
     \/ orphans[r] > 0 /\ orphans' = [orphans EXCEPT ![r] = @ - 1] /\ UNCHANGED timer
  /\ handlers' = [handlers EXCEPT ![r] = @ + 1]
  /\ UNCHANGED <<callVars, resultVars, trackerVars, sharedVars, requestId,
                 retriesRemaining, wire, attempts>>

\* That goroutine reads the id the request has by now and blocks sending it.
handleRequestTimeout(r) ==
  /\ handlers[r] > 0
  /\ handlers' = [handlers EXCEPT ![r] = @ - 1]
  /\ requestTimeouts' = [requestTimeouts EXCEPT ![requestId[r]] = @ + 1]
  /\ UNCHANGED <<callVars, timer, orphans, resultVars, trackerVars, requestId,
                 requestsFromClients, responsesFromAgents, outboundFlowControlQueue,
                 statIncrements, shutdown, retriesRemaining, wire, attempts>>

-----------------------------------------------------------------------------
(***************************************************************************)
(* trackRequests.  "select" is the head of its loop.                       *)
(***************************************************************************)

\* The uint32 counter.
NextId(id) == IF id + 1 = IdSpace THEN 0 ELSE id + 1

\* Mutation: the map is keyed by the id before the one the request was given.
TrackUnderOldId(id, r) ==
  outstandingRequests' = [outstandingRequests EXCEPT ![nextRequestId] = r]

Track(id, r) == outstandingRequests' = [outstandingRequests EXCEPT ![id] = r]

AcceptRequest ==
  /\ trackerPc = "select"
  /\ requestsFromClients # <<>>
  /\ LET r == Head(requestsFromClients)
         id == NextId(nextRequestId)
     IN /\ nextRequestId' = id
        /\ requestId' = [requestId EXCEPT ![r] = id]
        /\ Track(id, r)
        /\ startTimer(r)
        /\ inHand' = r
  /\ requestsFromClients' = Tail(requestsFromClients)
  /\ trackerPc' = "countForward"
  /\ UNCHANGED <<callVars, resultVars, responsesFromAgents, requestTimeouts,
                 outboundFlowControlQueue, statIncrements, shutdown,
                 retriesRemaining, wire, attempts>>

\* Every incrementStat of the tracker, and where it goes on.
AfterCount ==
  [countForward   |-> "forward",
   countTimedOut  |-> "countForward",
   countReleased  |-> "notify",
   countExhausted |-> "notify",
   countDropped   |-> "select",
   countUnknown   |-> "select"]

CountStat ==
  /\ trackerPc \in DOMAIN AfterCount
  /\ incrementStat
  /\ trackerPc' = AfterCount[trackerPc]
  /\ UNCHANGED <<callVars, timerVars, resultVars, inHand, nextRequestId,
                 outstandingRequests, requestsFromClients, responsesFromAgents,
                 requestTimeouts, outboundFlowControlQueue, shutdown, requestId,
                 retriesRemaining, wire, attempts>>

\* Blocks while the flow control queue is full.
Forward ==
  /\ trackerPc = "forward"
  /\ Len(outboundFlowControlQueue) < maxTargets
  /\ outboundFlowControlQueue' = Append(outboundFlowControlQueue, inHand)
  /\ attempts' = [attempts EXCEPT ![inHand] = @ + 1]
  /\ trackerPc' = "select"
  /\ inHand' = NoRequest
  /\ UNCHANGED <<callVars, timerVars, resultVars, nextRequestId, outstandingRequests,
                 requestsFromClients, responsesFromAgents, requestTimeouts,
                 statIncrements, shutdown, requestId, retriesRemaining, wire>>

\* Mutation: the entry stays in the map.
ForgetNothing(r) == UNCHANGED outstandingRequests

\* delete(ctxt.outstandingRequests, req.getRequestId())
Forget(r) ==
  outstandingRequests' = [outstandingRequests EXCEPT ![requestId[r]] = NoRequest]

\* Responses are matched by request id alone; one whose request is gone is
\* counted and dropped.
ReceiveResponse ==
  /\ trackerPc = "select"
  /\ responsesFromAgents # <<>>
  /\ LET id == Head(responsesFromAgents)
         r == outstandingRequests[id]
     IN \/ /\ r = NoRequest
           /\ trackerPc' = "countDropped"
           /\ UNCHANGED <<inHand, outstandingRequests, timerVars, response>>
        \/ /\ r # NoRequest
           /\ Forget(r)
           /\ stopTimer(r)
           /\ response' = [response EXCEPT ![r] = id]
           /\ trackerPc' = "countReleased"
           /\ inHand' = r
  /\ responsesFromAgents' = Tail(responsesFromAgents)
  /\ UNCHANGED <<callVars, transportError, nextRequestId, requestsFromClients,
                 requestTimeouts, outboundFlowControlQueue, statIncrements, shutdown,
                 requestId, retriesRemaining, wire, attempts>>

\* Mutation: off by one.
isRetryRequiredAtZero(r) == retriesRemaining[r] >= 0

isRetryRequired(r) == retriesRemaining[r] > 0

\* Mutation: the retry is not counted.
RetryForFree(r) ==
  /\ startTimer(r)
  /\ trackerPc' = "countTimedOut"
  /\ inHand' = r
  /\ UNCHANGED <<outstandingRequests, transportError, retriesRemaining>>

Retry(r) ==
  /\ retriesRemaining' = [retriesRemaining EXCEPT ![r] = @ - 1]
  /\ startTimer(r)
  /\ trackerPc' = "countTimedOut"
  /\ inHand' = r
  /\ UNCHANGED <<outstandingRequests, transportError>>

\* Mutation: the error field is not filled in.
setTransportErrorNot(r) == UNCHANGED transportError

setTransportError(r) == transportError' = [transportError EXCEPT ![r] = TRUE]

Exhaust(r) ==
  /\ Forget(r)
  /\ setTransportError(r)
  /\ trackerPc' = "countExhausted"
  /\ inHand' = r
  /\ UNCHANGED <<retriesRemaining, timerVars>>

\* An expiry of a request that is gone is logged, counted and ignored.
ReceiveTimeout(id) ==
  /\ trackerPc = "select"
  /\ requestTimeouts[id] > 0
  /\ LET r == outstandingRequests[id]
     IN \/ /\ r = NoRequest
           /\ trackerPc' = "countUnknown"
           /\ UNCHANGED <<inHand, outstandingRequests, timerVars, transportError,
                          retriesRemaining>>
        \/ r # NoRequest /\ isRetryRequired(r) /\ Retry(r)
        \/ r # NoRequest /\ ~isRetryRequired(r) /\ Exhaust(r)
  /\ requestTimeouts' = [requestTimeouts EXCEPT ![id] = @ - 1]
  /\ UNCHANGED <<callVars, response, nextRequestId, requestsFromClients,
                 responsesFromAgents, outboundFlowControlQueue, statIncrements,
                 shutdown, requestId, wire, attempts>>

\* notify() and wait() meet on the unbuffered requestDoneChan.
Notify ==
  /\ trackerPc = "notify"
  /\ pc[inHand] = "wait"
  /\ pc' = [pc EXCEPT ![inHand] = "returned"]
  /\ trackerPc' = "select"
  /\ inHand' = NoRequest
  /\ UNCHANGED <<mutex, sends, timerVars, resultVars, nextRequestId,
                 outstandingRequests, sharedVars, requestId, retriesRemaining,
                 wire, attempts>>

\* The tracker leaves its loop without looking at what is outstanding.
TrackerStops ==
  /\ trackerPc = "select"
  /\ shutdown
  /\ trackerPc' = "stopped"
  /\ UNCHANGED <<callVars, timerVars, resultVars, inHand, nextRequestId,
                 outstandingRequests, sharedVars, requestId, retriesRemaining,
                 wire, attempts>>

-----------------------------------------------------------------------------
(***************************************************************************)
(* Environment: the other goroutines of the context, and the network.      *)
(***************************************************************************)

unchangedByOthers ==
  UNCHANGED <<callVars, timerVars, resultVars, trackerVars, requestsFromClients,
              requestTimeouts, requestId, retriesRemaining, attempts>>

\* processOutboundQueue encodes the message, with the id the request has by
\* now, and writes it to the socket, which is closed at shutdown.  A message
\* that is lost, or that cannot be encoded, is one that no response answers.
Transmit ==
  /\ outboundFlowControlQueue # <<>>
  /\ wire' = IF shutdown THEN wire
             ELSE wire \union {requestId[Head(outboundFlowControlQueue)]}
  /\ outboundFlowControlQueue' = Tail(outboundFlowControlQueue)
  /\ UNCHANGED <<responsesFromAgents, statIncrements, shutdown>> /\ unchangedByOthers

\* UDP may lose, delay, reorder or duplicate: an agent's response to any
\* message sent so far can arrive at any time, any number of times, and the
\* receiver may be holding one when the context is shut down.
ResponseArrives(id) ==
  /\ id \in wire
  /\ Len(responsesFromAgents) < ResponseCap
  /\ responsesFromAgents' = Append(responsesFromAgents, id)
  /\ UNCHANGED <<outboundFlowControlQueue, statIncrements, shutdown, wire>>
  /\ unchangedByOthers

\* trackStats receives a notification; it has left its loop, at the latest,
\* some time after the shutdown notification.
TrackStat ==
  /\ statIncrements > 0
  /\ statIncrements' = statIncrements - 1
  /\ UNCHANGED <<responsesFromAgents, outboundFlowControlQueue, shutdown, wire>>
  /\ unchangedByOthers

\* The receiver and the flow controller count on the same channel.
OthersIncrementStat ==
  /\ incrementStat
  /\ UNCHANGED <<responsesFromAgents, outboundFlowControlQueue, shutdown, wire>>
  /\ unchangedByOthers

\* monitor closes internalShutdownNotification.
CloseInternalShutdownNotification ==
  /\ MayShutdown
  /\ ~shutdown
  /\ shutdown' = TRUE
  /\ UNCHANGED <<responsesFromAgents, outboundFlowControlQueue, statIncrements, wire>>
  /\ unchangedByOthers

-----------------------------------------------------------------------------

Caller(r) ==
  \/ \E k \in Clients : SendRequest(r, k)
  \/ CountSent(r)
  \/ EnqueueRequest(r)
  \/ Return(r)

Timer(r) == TimerFires(r) \/ handleRequestTimeout(r)

Tracker ==
  \/ AcceptRequest
  \/ ReceiveResponse
  \/ \E id \in Ids : ReceiveTimeout(id)
  \/ CountStat
  \/ Forward
  \/ Notify
  \/ TrackerStops

Environment ==
  \/ Transmit
  \/ \E id \in Ids : ResponseArrives(id)
  \/ TrackStat
  \/ OthersIncrementStat
  \/ CloseInternalShutdownNotification

Next ==
  \/ \E r \in Requests : Caller(r) \/ Timer(r)
  \/ Tracker
  \/ Environment

Spec == Init /\ [][Next]_vars

(***************************************************************************)
(* Go runs every goroutine that can run (weak fairness).  A select chooses *)
(* at random among the ready cases and a channel serves its blocked        *)
(* senders in order, so a case or a send that is ready again and again is  *)
(* served in the end (strong fairness, where the result needs it: late and *)
(* duplicate responses can keep the tracker busy for ever).  Calls need    *)
(* not be made, responses need not arrive or be taken, and the context     *)
(* need not shut down.                                                     *)
(***************************************************************************)
Fairness ==
  /\ \A r \in Requests :
       /\ SF_vars(CountSent(r) \/ EnqueueRequest(r) \/ Return(r))
       /\ WF_vars(Timer(r))
  /\ SF_vars(AcceptRequest)
  /\ SF_vars(\E id \in Ids : ReceiveTimeout(id))
  /\ SF_vars(CountStat \/ Forward \/ Notify)
  /\ WF_vars(TrackerStops)
  /\ WF_vars(~shutdown /\ Transmit)
  /\ WF_vars(~shutdown /\ TrackStat)

FairSpec == Spec /\ Fairness

-----------------------------------------------------------------------------
(***************************************************************************)
(* Properties.                                                             *)
(***************************************************************************)

CallStates == {"new", "count", "enqueue", "wait", "returned", "done"}

TrackerStates == {"select", "forward", "notify", "stopped"} \union DOMAIN AfterCount

CallTypes ==
  /\ pc \in [Requests -> CallStates]
  /\ mutex \in [Clients -> Requests \union {NoRequest}]
  /\ retriesRemaining \in [Requests -> 0 .. Retries]
  /\ response \in [Requests -> Ids \union {NoResponse}]
  /\ transportError \in [Requests -> BOOLEAN]
  /\ sends \in 0 .. MaxSends
  /\ attempts \in [Requests -> Nat]

TimerTypes ==
  /\ timer \in [Requests -> {0, 1}]
  /\ orphans \in [Requests -> Nat]
  /\ handlers \in [Requests -> Nat]
  /\ requestTimeouts \in [Ids -> Nat]

TrackerTypes ==
  /\ trackerPc \in TrackerStates
  /\ inHand \in Requests \union {NoRequest}
  /\ nextRequestId \in Ids
  /\ requestId \in [Requests -> Ids]
  /\ outstandingRequests \in [Ids -> Requests \union {NoRequest}]

ChannelTypes ==
  /\ requestsFromClients \in Seq(Requests)
  /\ responsesFromAgents \in Seq(Ids)
  /\ outboundFlowControlQueue \in Seq(Requests)
  /\ statIncrements \in 0 .. StatCap
  /\ shutdown \in BOOLEAN
  /\ wire \subseteq Ids

\* The values the variables take (every variable and channel above).
TypeOK == CallTypes /\ TimerTypes /\ TrackerTypes /\ ChannelTypes

Queued(r) == \E i \in 1 .. Len(requestsFromClients) : requestsFromClients[i] = r

Tracked(r) == \E id \in Ids : outstandingRequests[id] = r

Releasing(r) ==
  inHand = r /\ trackerPc \in {"countReleased", "countExhausted", "notify"}

Forwarding(r) ==
  inHand = r /\ trackerPc \in {"countTimedOut", "countForward", "forward"}

WaitersAreOwed ==
  \A r \in Requests : (pc[r] = "wait") <=> (Queued(r) \/ Tracked(r) \/ Releasing(r))

OwedInOnePlace ==
  \A r \in Requests :
    /\ ~(Queued(r) /\ Tracked(r))
    /\ ~(Releasing(r) /\ (Queued(r) \/ Tracked(r)))

QueuedOnce ==
  \A i, j \in 1 .. Len(requestsFromClients) :
    requestsFromClients[i] = requestsFromClients[j] => i = j

TrackedOnce ==
  \A i, j \in Ids :
    outstandingRequests[i] = outstandingRequests[j] =>
      i = j \/ outstandingRequests[i] = NoRequest

(***************************************************************************)
(* A caller that waits is owed exactly one notify(): its request is in     *)
(* exactly one of the tracker's channel, the map of outstanding requests   *)
(* and the tracker's hands on the way to notify(), once, and no other      *)
(* request is in any of them.  Were it in none, the caller would block for *)
(* ever; were it in two, the tracker would block for ever in the second    *)
(* notify() (trackRequests, communityRequest.wait and notify).             *)
(***************************************************************************)
OneNotifyPerWait == WaitersAreOwed /\ OwedInOnePlace /\ QueuedOnce /\ TrackedOnce

\* A call whose request has no id of its own yet.
WithoutId(r) == pc[r] \in {"count", "enqueue"} \/ Queued(r)

IdsMatch ==
  \A id \in Ids : outstandingRequests[id] # NoRequest =>
    requestId[outstandingRequests[id]] = id /\ id <= nextRequestId

IdsAreLeft ==
  nextRequestId + Cardinality({r \in Requests : WithoutId(r)}) <= sends

InHandMatches ==
  inHand = NoRequest <=>
    trackerPc \in {"select", "countDropped", "countUnknown", "stopped"}

(***************************************************************************)
(* An id leads to one request and back: the map holds a request under the  *)
(* id the request carries, no id is given out twice, and the tracker has a *)
(* request in hand exactly where its code uses one.  OneNotifyPerWait is   *)
(* inductive together with it (setRequestId, outstandingRequests).         *)
(***************************************************************************)
IdsLeadBack == IdsMatch /\ IdsAreLeft /\ InHandMatches

(***************************************************************************)
(* Retransmission budget: a request that is outstanding has used up one    *)
(* forward for each retry spent and one for the first send, less the one   *)
(* the tracker is about to do, and a caller is told of a timeout only      *)
(* after Retries + 1 forwards (isRetryRequired, setRetriesRemaining; "sent *)
(* 3 times" with the default of 2 retries).                                *)
(***************************************************************************)
RetryBudget ==
  \A r \in Requests :
    /\ Tracked(r) =>
         attempts[r] + retriesRemaining[r] + (IF Forwarding(r) THEN 1 ELSE 0) = Retries + 1
    /\ trackerPc = "countExhausted" /\ inHand = r => attempts[r] = Retries + 1

(***************************************************************************)
(* One request in flight per client, however many goroutines call          *)
(* SendRequest on it: whatever request the tracker still has to deal with, *)
(* the mutex of the client it was sent through is held for it, and is only *)
(* released once the request has left the tracker for good ("all calls to  *)
(* SendRequest() when a request is already in flight" block,               *)
(* v2cClient.go:30).                                                       *)
(***************************************************************************)
OneInFlightPerClient ==
  \A r \in Requests : Queued(r) \/ Tracked(r) \/ Releasing(r) =>
    \E k \in Clients : mutex[k] = r

\* What follows holds of a request that is sent once; a later call finds the
\* response, the error and the timer goroutines of the call before.
SentOnce == Requests \ Reusable

(***************************************************************************)
(* The response a caller gets was sent in answer to this call: it carries  *)
(* the id the request was given, under which it has been written to the    *)
(* socket (outstandingRequests, setResponse).                              *)
(***************************************************************************)
ResponseIsOurs ==
  \A r \in SentOnce :
    pc[r] = "returned" /\ response[r] # NoResponse =>
      response[r] = requestId[r] /\ requestId[r] \in wire

(***************************************************************************)
(* "On return, the request will either have a response attached, or it's   *)
(* error field will be filled in" (SendRequest, v2cClient.go:51).          *)
(***************************************************************************)
EitherResponseOrError ==
  \A r \in SentOnce :
    pc[r] = "returned" => (response[r] # NoResponse) # transportError[r]

(***************************************************************************)
(* Every outstanding request has exactly one clock going, so that its      *)
(* timeout is neither lost nor doubled: a running timer, a goroutine in    *)
(* handleTimeout, or an expiry waiting on requestTimeouts.  A request that *)
(* is not with the tracker has no timer running (startTimer, stopTimer).   *)
(***************************************************************************)
OneClock ==
  \A r \in SentOnce :
    /\ Tracked(r) =>
         timer[r] + orphans[r] + handlers[r] + requestTimeouts[requestId[r]] = 1
    /\ ~Tracked(r) => timer[r] = 0 /\ orphans[r] = 0

\* The tracker sends r again, or gives it up, while its timer is running.
TimedOutEarly(r) ==
  /\ trackerPc = "select"
  /\ trackerPc' \in {"countTimedOut", "countExhausted"} /\ inHand' = r
  /\ timer[r] # 0

(***************************************************************************)
(* A request is sent again, or given up, only once the timer of its last   *)
(* send has run out: the sends are TimeoutSeconds apart (v2cClient.go:28). *)
(***************************************************************************)
ResendWhenTimerRanOut == [][\A r \in SentOnce : ~TimedOutEarly(r)]_vars

(***************************************************************************)
(* The same of every request, sent before or not: "with 10 seconds in      *)
(* between sends" (v2cClient.go:29).                                       *)
(***************************************************************************)
SendsAreSpaced == [][\A r \in Requests : ~TimedOutEarly(r)]_vars

(***************************************************************************)
(* A call of SendRequest comes to an end, with a response or a timeout:    *)
(* SendRequest "waits for a response or a timeout" (v2cClient.go:49).      *)
(***************************************************************************)
SendCompletes ==
  \A r \in Requests : pc[r] = "count" ~> pc[r] = "returned"

(***************************************************************************)
(* The tracker, its queues and its timers implement the service the caller *)
(* is promised, for the requests that are sent once.  A call is in         *)
(* progress until notify(), and a send is the hand-over to the flow        *)
(* control queue.                                                          *)
(***************************************************************************)
callOf ==
  [r \in SentOnce |-> IF pc[r] \in {"count", "enqueue", "wait"} THEN "busy" ELSE pc[r]]

triesOf == [r \in SentOnce |-> attempts[r]]

outcomeOf ==
  [r \in SentOnce |-> IF pc[r] \notin {"returned", "done"} THEN "none"
                      ELSE IF transportError[r] THEN "timeout" ELSE "response"]

Service ==
  INSTANCE RequestService
    WITH Requests <- SentOnce, call <- callOf, tries <- triesOf, outcome <- outcomeOf

ImplementsService == Service!FairSpec
=============================================================================
