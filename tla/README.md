# gosnmp: a TLA+ verification of the library

gosnmp is an SNMP v1/v2c library in Go. A client context sends requests over one UDP
socket, retries them and hands responses back to the goroutines that wait for them; an
agent answers requests through handlers that users register; a trap receiver listens.
Nearly everything interesting happens between goroutines and channels, on timers, and when
one side of the socket dies. That is what these modules model. The message codec is modelled
byte by byte, because each side of it has limits that the other does not share.

File names below are those of the repository; line numbers of every definition are in
`PROJECT.json` under `map`.

## 1. Inventory

| component | state it keeps | operations | hard behaviour | what makes it correct |
|---|---|---|---|---|
| Request path (`snmp.go` trackRequests, `v2cClient.go`, `msg.go` communityRequest) | map of outstanding requests, next id, per-request retries, timer, response, error; client's mutex; five channels | SendRequest, trackRequests' select, startTimer/stopTimer, handleTimeout, notify/wait | late, lost and duplicate responses; timers that fire while a response arrives; goroutines left from earlier timers; full channels; shutdown | each waiting caller is released exactly once, with its own response or a timeout after Retries + 1 sends |
| Context lifecycle (`snmp.go` initContext, monitor, listen, processOutboundQueue, Shutdown) | socket, channels that are closed or nil, monitor's flags, `sync.Once` | construction, read and write loops, Shutdown | death of one side, shutdown against either, bind failure, full channels, restart timer | after Shutdown the socket is quiet; one side's death takes the other along; no circle of full channels |
| Statistics (`snmp.go` trackStats, incrementStat, GetStat) | 97 bins of fifteen minutes, next rollover | count, ask, tick | rollover against counting and asking, bins not filled yet | every notification is in exactly one bin; bins cover consecutive quarters |
| Agent (`agent.go`, `agent_support/`) | tree of handlers under a lock, values of handlers, response in hand | register, lookup, Get, Set, respond | registration between lookup and use, one handler under two identifiers, full queue of responses, handlers that fail, values refused or nil, responses that cannot be encoded, death of the transmitter | each identifier is answered by a handler registered for it; answers line up with the request; each request is answered while the transmitter lives |
| Object identifiers (`objectIdentifier.go`) | none | Equal, Compare, MatchLength | one identifier being the beginning of another | Compare is a total order, 0 only for equal ones |
| Message codec (`encoder.go`, `decoder.go`, `integer.go`, `objectIdentifier.go`, `octetstring.go`, `bitstring.go`, `ipAddress.go`, `null.go`, `varbind.go`, `msg.go`) | none between messages but the pool of buffers | AddVarbind, encode, decodeMsg | short and long lengths, sign bits, base 128, errors that are dropped, assertions that panic | what is composed is received as it was, or refused |
| Bit strings (`bitstring.go` IsSet, Set, Clear) | bytes and a length | single bits | the index equal to the length | a bit is what was last done to it, padding is zero |
| Buffer pool (`bufferPool.go`, `encoder.go`) | bounded free list of buffers | getBuffer, putBuffer, destroy | a message that cannot be encoded leaves half-written buffers | no message starts with what an earlier one left |
| Client context (`client.go`, all of the above but the agent and the codec) | as the request path and the lifecycle | as these | deaths of goroutines while requests are on the way | it is what each of the two assumes of the other; callers are served while the flow controller lives |
| Request pool (`requestPool.go`) | bounded free list of requests | get, put | - | not modelled: nothing takes a request out of it |
| Text forms (`oid.go`, `logger.go`, `constants.go`) | none | parsing, logging | none | not modelled: no control beyond a loop or a switch |

How they meet: a caller hands its request to the tracker over `requestsFromClients`; the
tracker hands it to the transmitter over `outboundFlowControlQueue`; the listener decodes
what comes back and hands responses to the tracker over `responsesFromAgents`, or requests
to the agent, which runs on the listener's goroutine and uses the same outbound queue. All
of them send on `statIncrementNotifications`, which is bounded, so each can block there. The
monitor owns the closing of `internalShutdownNotification`, which stops all of them.

## 2. Modules

| module | models | composed with |
|---|---|---|
| `RequestService` | what SendRequest's comments promise one caller: sends, then a response or a timeout | - |
| `RequestTracker` | the request path with all its channels | implements `RequestService` (INSTANCE with a refinement mapping) |
| `ContextLifecycle` | the goroutines of a context and their shutdown | keeps of the tracker and the agent only what they do to shared channels |
| `ClientContext` | a client context as a whole | extends `RequestTracker`, instantiates `ContextLifecycle`, and implements both |
| `StatTracker` | the stats goroutine and those that count and ask | - |
| `ObjectIdentifiers` | order and matching of identifiers | used by `Agent` |
| `Agent` | listener, tree of handlers and transmitter of an agent | extends `ObjectIdentifiers` |
| `Ber` | header, length and value encodings and their decoders | used by `MessageCodec` |
| `BitStrings` | single bits of bit strings | used by `MessageCodec` |
| `MessageCodec` | messages composed, encoded, sent and decoded, one after the other, and the pool of buffers | extends `Ber` and `BitStrings` |
| `MC...` | model values and input sets for TLC | extend the module they are named after |
| `...Proofs` | theorems | extend the module they are named after; `AgentProofs` holds those of `ObjectIdentifiers` too, `MessageCodecProofs` extends `BerProofs` |

### Conventions

A goroutine takes one action from one point where it can block, or where another can see
its writes, to the next: channel operations, the mutex, socket calls, and `incrementStat`,
which is a send on a bounded channel. A pc variable says at which of these points it stands.
Channels are sequences, or lengths where the contents do not matter; an unbuffered channel
is a meeting of the two actions. Go's nil is a model value. Integers keep their width where
it matters: request ids wrap modulo `IdSpace`, and bytes are bytes in `Ber`.

Operators whose comment starts with "Mutation" are not part of any specification. Each is a
definition of the model with a plausible mistake put in; with the mistake in place the
property that `PROJECT.json` names for it fails. They show that the properties can tell
wrong code from right.

### RequestTracker

`SendRequest` takes the client's mutex and sets up the request; `CountSent` and
`EnqueueRequest` are the two channel operations of `sendRequest`; `Return` is what follows
`wait`. `AcceptRequest`, `ReceiveResponse` and `ReceiveTimeout` are the cases of the
tracker's select, `CountStat`, `Forward` and `Notify` the points where it blocks after
them. `TimerFires` starts the goroutine of `time.AfterFunc`; `handleRequestTimeout` is that
goroutine reading the request id, later, and waiting on the unbuffered `requestTimeouts`.
Timers whose pointer is overwritten are counted as orphans. `Reusable` says which request
objects may be sent again after SendRequest has returned them. The environment
(`ResponseArrives`) delivers any response to any id that was written, at any time and
repeatedly, or never. `RequestService` is implemented for the requests that are sent once
(`SentOnce`), with any others around them: a request that is sent again finds the timers and
the error of the call before.

### ContextLifecycle

`role` distinguishes a client, which runs a tracker and cannot take requests, from an agent,
which takes requests and has no tracker; a trap receiver is a client to this module.
Nil channels are flags: a send on `responsesFromAgents` of an agent blocks for ever, and the
monitor's loop ends when both died-channels are nil. `BindFails` and `RestartTimerFires`
keep what the code does there: the constructor blocks on a channel that nobody reads, and
the restart timer restarts nothing.

Callers count on the stats channel too (`CallerCounts`), in any number.

### ClientContext

`RequestTracker` assumes a listener that delivers what was sent, a transmitter that takes
messages and others that count; `ContextLifecycle` assumes a tracker and callers. Here the
callers, the timers and the tracker take the steps of the former (`OnContext`) and all other
goroutines those of the latter (`InContext`). The shared queues are the sequences of
`RequestTracker`, of which the lifecycle sees the lengths; the shutdown notification and the
stats channel are the same variables. What is new is what a message carries across: the id of
the request that the transmitter has encoded, of those that were written, and of the response
the listener has in hand. `ImplementsTracker` and `ImplementsLifecycle` say that neither
module has assumed too much of the other.

### StatTracker

Ticks are the model's unit of time, `Quarter` of them to a bin. The initial rollover is what
the code computes, the time since the last quarter of an hour, not the time to the next.
Asking for a bin that does not exist is `AnswerMissing`, a panic. Two history variables say
what the bins ought to show: `rollovers`, how many there have been, and `taken`, which
statistic was received in which quarter. Bin b is quarter `rollovers - b`.

### Agent

`Receive` is the call of `processCommunityRequest`. `Lookup` is atomic, under the lock;
`Handle` comes later and uses the handler found, which may have been replaced in the tree
by then. The tree is the map it stands for and `Ceil` the operation of the llrb library as
the code uses it: the first node, in the order of `Compare`, that is not before the one
looked for. `RegisterSingleVarOidHandler` puts any handler under any identifier at any time,
so that a handler may have several identifiers, or none any more, and be in use meanwhile.

The handlers are the two of `agent_support` that can be registered, for octet strings and
object identifiers (`IntOidHandler` has other signatures than `oidHandler`), and those that
users write, which may also fail (`Fallible`). `Set` refuses a value when the handler is not
writable or the value is not of its type; `SetWritable`, which may be called at any time, is
the choice between the two that a handler in both `Writable` and `ReadOnly` has. A handler
that fails or refuses leaves its varbind out (`GetFails`, `SetFails`). A SET whose value
decodeMsg left nil (`Nils`) ends the program (`SetPanics`). Transactions are only whether one
started.

The transmitter takes a response off the queue and writes it (`Write`), discards it when it
cannot be encoded (`EncodeFails`, `Unencodable`), or ends (`WriteFails`, and
`StopTransmitting` for the shutdowns, which `ContextLifecycle` has in full). Of a response in
the queue the model keeps its id and whether it can be encoded. Four history variables say
what ought to be: `origin`, which varbind of the request each answer is to and which handler
gave it; `mayAnswer`, the handlers each identifier has had since the request came in; `taken`,
the responses off the queue and what became of them; `expected`, the value of each identifier
by registrations and sets alone.

### Ber and MessageCodec

A decoder is a function from the bytes that are left to a value and the rest, an error, or a
panic. An error keeps the rest, because `decodeValue` drops the error of a value and goes on
from there. An encoder returns the chain of buffers that it appends, in order. `Transmit` and
`EncodeFails` take these from `freeList`, write after what is in them, and put them back with
`destroy`, the ones written before the failing varbind included (`Abandoned`). A bit string
varbind is built by `NewBits`, `SetBit` and `ClearBit`; `chosen` remembers what was asked for.
Setting the bit after the last of a bit string of whole bytes ends the program (`IndexPanics`).
The decoder is modelled with its limits: four base-128 digits, the assertion of `int32` that no
integer passes, the slice that is one element short for identifiers of two elements, the first
byte of a long length taken whole.

## 3. Runs

| run | instance | shows | distinct states |
|---|---|---|---|
| `request_safety` | 2 requests, 1 of which is sent again, 2 clients, 3 sends, 1 retry, channels of 1, shutdown | the safety properties of the request path | about 1.9 million |
| `request_service` | 2 requests, 2 clients, no shutdown | refinement of `RequestService` and that calls end | about 60 thousand |
| `lifecycle` | both roles, 2 callers of Shutdown, channels of 1 | quiet after Shutdown; deaths spread, routing ends, Shutdown returns | about 79 thousand |
| `client_context` | 1 request, 1 retry, 1 caller of Shutdown, channels of 1 | refinement of `RequestTracker` and `ContextLifecycle`; the call ends | about 188 thousand |
| `stats` | 2 users, 2 statistics, 3 bins, 7 ticks | counts and bins | about 1.5 million |
| `agent` | 2 identifiers, one the beginning of the other; 2 handlers, one for all values and one that holds the value that cannot be encoded, refuses every SET and fails at will; 3 values, one of them nil and one that cannot be encoded; 2 requests of up to 2 varbinds; queue of 1 | the agent's properties, liveness included | about 591 thousand |
| `codec` | 4 headers, 6 names, up to 2 varbinds, bit strings of 0, 8 and 9 bits, a pool of 8 | round trip, no mistaken message, known panics, bits | about 271 thousand |
| `reuse_times_out_early` | 1 request sent twice | a violation, below | - |
| `shutdown_strands_callers` | 1 request | a violation, below | - |
| `more_specific_oid` | 1 handler, 3 identifiers | a violation, below | - |
| `long_message` | 1 varbind | a violation, below | - |
| `socket_reinit` | 1 client context | a violation, below | - |

**Bounds and why they are enough.** Two requests on two clients can both be outstanding, or wait
for one mutex; the tracker handles requests one by one and only the map relates them. The third
send is one request's second, while the other's is under way. One retry has both outcomes of
`isRetryRequired`. Channels of capacity 1 or 2 fill up within a few steps, where 100 would never
be reached; the behaviours of a larger channel in which it does not fill are also behaviours of
a small one that is emptied in time. `MaxSends` and `IdSpace` keep ids from wrapping; the code
needs 2^32 sends for that. Three bins have a current one, one that is shifted and one that is
shifted out; seven ticks of two to a bin roll over three times. Two varbinds have a first and a
last one, and values and identifiers in `MCMessageCodec` lie on both sides of each limit: 127
and 128, 2^15, 2^23, 2^28, first bytes 255 and 256, messages of 126 and 129 bytes. A pool of 8 is smaller
than a chain, which has at least 13 buffers, so that it is empty, partly used and full within
one message. In `client_context` one request suffices: what it adds to `request_safety` is the
fate of the goroutines around a call. Symmetry is used only in runs without liveness, over sets
whose members the module does not tell apart.

**Deadlock** is not checked where the system may stop: after a shutdown, after a panic, at
the bound of requests or ticks.

**Fairness.** Go runs every goroutine that can run, and a select or a channel with several
waiters picks among them without starving one: goroutines have weak fairness where they wait for
nothing that others can take away, and strong fairness where they do (a mutex or a full channel
that others also use, a select with several ready cases). The tracker has strong fairness for
each case of its select separately, since Go chooses among ready cases at random. Users, remote
agents, socket errors and registrations have no fairness. Nor have the steps by which the
tracker and the stats goroutine stop on a shutdown: the lifecycle's properties hold whether
these come early or late. `client_context` is fair only to the caller, its timers, the tracker,
the flow controller and the stats goroutine. Timers fire (`WF` of `Timer`). In `agent` the
listener has weak fairness in what it does with a request it has read, since only the transmitter
empties its queue and nobody else fills it, and so has the transmitter while it has a response to
take; neither its end nor a failing write has to happen.

## 4. What disagrees with the repository's own words

* `reuse_times_out_early`: handleRequestTimeout reads the request id when its goroutine gets
  to run. If the request has been answered, returned and sent again by then, the new call is
  resent or given up at once, although v2cClient.go:28-29 puts the sends 10 seconds apart.
* `shutdown_strands_callers`: the tracker returns on shutdown without releasing outstanding
  requests; SendRequest, which "waits for a response or a timeout" (v2cClient.go:49), waits
  for ever.
* `more_specific_oid`: an identifier more specific than a handler's own is answered with
  NoSuchObject, where agent.go:83-86 says it is served.
* `socket_reinit`: a socket that has failed is closed and never opened again, where
  snmp_test.go:23-24 expects "a socket re-initialization".
* `long_message`: no block of 127 bytes or more is decoded by the library that encodes it
  (decoder.go:18, decoder.go:47, encoder.go:80).

The properties of the passing runs name what else is known, as exceptions: a context created
exactly at the start of a quarter of an hour never rolls over (`NoLongBin`); Shutdown and the
listener can hang behind a full channel whose reader has stopped
(`ShutdownHangsOnlyOnFullChannel`, `OutboundDeathSpreads`); an INTEGER varbind, or an identifier
of two elements, makes the receiver panic (`PanicsAreKnown`); an identifier whose first byte
overflows, or a last value of two elements, is received as another one (`NeverMistaken`); the
length of a block of 127 bytes or more is read wrongly, and what then becomes of the message is
left open in all the codec's properties (`Short`), since any bytes of its data may be taken for
lengths; a response without varbinds, an agent's answer when it refuses all of a request, is
never decoded (`EmptyIsRefused`); an agent leaves out varbinds whose handler fails or refuses
(`AnswersLineUp`), drops responses that cannot be encoded and those behind a failed write
(`AnswersInOrder`, `EveryRequestIsAnswered`), and is ended by a SET of nil
(`EveryRequestIsAnswered`); Set and Clear take the index after the last bit
(`BitsAreThoseSet`, `IndexPanics`). `EitherResponseOrError` holds for requests that are sent
once; sent again, a request keeps the error of the call before.

## 5. Proofs

TLAPS proves these for every value of the constants that satisfies the assumptions named in
the modules, with no bound on requests, clients, handlers, identifiers or channels.

* `RequestTrackerProofs!TypeCorrect`: type correctness of the request path. It needs
  `InHandMatches`, that the tracker has a request in hand exactly at the points that use one.
* `RequestTrackerProofs!OneNotify` and `IdsLead`: a waiting caller is owed exactly one
  notify(). `OneNotifyPerWait` says where its request is (queue, map or hands), but is not
  inductive: a timeout or a response finds a request by an id. The strengthening is
  `IdsLeadBack`: the map holds a request under the id it carries, ids in the map are not
  above the counter, and the counter, plus the calls that have no id yet, does not exceed the
  calls made. From `NoWrapAssumption` (fewer calls than ids) a new id is then always free.
* `RequestTrackerCallProofs`: what one call gets. `Budget`, the number of sends, and
  `OneInFlight`, its client for itself, hold for every request; `OurResponse`,
  `ResponseOrError`, `SingleClock` and `ResendSpaced` for those sent once. From
  `OneNotifyPerWait` a call is at one stage at a time (`Stage`: new, unsent, queued, tracked,
  releasing, returned, done), and each part of the inductive invariant `CallInv` says what
  holds at each stage: `MutexInv` who has the mutex, `BudgetInv` the sends had and left,
  `AnswerInv` the response and the error, `ClockInv` the timers. `IdInv` is what ties a
  timeout or a response, which know an id only, to a call: no two requests ever carry the same
  id, and no expiry comes from one that was not given out. A response counts only if it was
  written in answer to this id, so `AnswerInv` also bounds what the listener may hold.
* `RequestTrackerCallProofs!Implements`: from the same invariant, every step of the tracker,
  its callers and its timers is a step of `RequestService` or a stutter. This is
  `ImplementsService` without the fairness, and of more behaviours than the run's: shutdown
  and reuse of other requests are included.
* `StatTrackerProofs`: `CountedOnce`, `Consecutive`, `QuarterAtMost`, `PastQuarters` and
  `TypeCorrect`. The bins are a window that slides over the quarters of an hour. `WindowInv`
  says which bins there are and how long each is, `ClockInv` how the rollovers keep up with
  the ticks. A count goes into bin 0 as its quarter, and the shift renumbers quarters by one,
  so that `ReceivedIn`, the notifications of one bin, moves along with the bin.
* `ContextLifecycleProofs!LifecycleTypes` and `QuietAfter`: once a Shutdown has returned,
  the socket is closed and unused. The inductive invariant is `MonitorKnows`, which ties each
  died-channel and each closed channel to where the goroutine that caused it stands.
* `ClientContextProofs!ContextImplementsTracker` and `ContextImplementsLifecycle`: a client
  context that may be shut down (`MayShutdown`) implements both of the modules it composes,
  so the invariants above hold of a context with all its goroutines and not only of each part
  in its assumed environment. The refinements are step by step; the invariant they need is
  what the parts owe each other: nobody writes before the context is constructed, the socket
  is closed once the shutdown is announced, and the ids in the hands of the flow controller
  and the listener have been sent. `ContextServesCalls` draws the conclusion: what a caller is
  promised by the request path it gets from the whole context.
* `ClientContextProofs!ContextQuietAfter` draws another: what `QuietAfter` proves of a context
  whose tracker and callers are those of `ContextLifecycle` holds with the real ones.
* `AgentProofs`, on `ObjectIdentifiers`: `CompareFindsEqual`, `CompareIsAntisymmetric` and
  `CompareIsTransitive`, a total order on identifiers of any length. Each follows from the
  first index at which two identifiers differ (`FirstDifference`), whose existence is the
  well-foundedness of the naturals.
* `AgentProofs!TypeCorrect` and `OwnHandlersAnswer`: every answer was given by a handler that
  has been in the tree under exactly the identifier asked for since the request came in, or is
  NoSuchObject, from none, when there was none as it came in. The lemma `LookupIsExact` derives
  from the order that `Ceil` with `MatchLength` finds a node for exactly the identifiers
  registered; a finite tree has a first node after any identifier (`LeastIdentifier`, by the
  number of nodes before each). The inductive invariant adds `InHand`: the handlers in the tree
  are among those of `mayAnswer`, and so is the one that the listener holds between lookup and
  use, although it may have left the tree.
* `AgentProofs!LinedUp`, `LastSetIsRead` and `InOrder`: the answers are to varbinds of the
  request, in its order, and nothing is left out that no handler could refuse; a GET through the
  handler in the tree reads what was last set; responses are taken once each, in the order of
  the requests. `LinedUp` is inductive by way of `origin` (`Placed`: no answer is to a varbind not
  come to). For `LastSetIsRead` the invariant is `ValueInv`, that the value expected of each
  identifier is the one its handler holds; a SET through a shared handler changes what is
  expected of all its identifiers, and through one that has left the tree of none.
* `MessageCodecProofs!BitsAsSet`: a bit is what was last done to it, for bit strings of any
  length. Invariant (`BitsInv`): every bit, in the padding or not, is set exactly if it is
  among `chosen`, which never goes beyond the first bit of the padding. `ByteSet` and
  `ByteClear` are the arithmetic of one byte, by the eight weights.

* `BerProofs` and `MessageCodecProofs!PlainIsReceived`, `NeverTakenForAnother`, `KnownPanics`,
  `EmptyNeverReceived` and `CodecTypeCorrect`: what TLC checks of two varbinds with a few values
  each holds for any number of varbinds, any values, any names and any pool. The invariant,
  `CodecInv`, says that the buffers in the pool are empty, whatever became of the messages
  before, so that the wire carries what `encode` writes of the present one; the rest is about
  `encode` and `decodeMsg`, from the inside out. `IntegerReadBack`: an integer of 32 bits is
  read back, for each number of bytes and either sign. `ElementReadBack` and
  `IdentifierWithHeaderReadBack`: so is an identifier, unless an element takes five digits.
  `ValueReadBack` says it for a value of any type in front of any bytes, `VarbindReadBack` for a
  varbind, `ListReadBack` for a list, `MessageReadBack` for the header and the fields around it.
  Where something is not read back the lemmas say what happens instead (a panic, an error, or
  bytes of the value left over, which the length check of the varbind notices), because the
  exceptions of `NeverMistaken` and `PanicsAreKnown` are no weaker than that.
* `MessageCodecProofs!decodeMsgType`: on any bytes, from anyone, `decodeMsg` returns a message
  with fields of their types, an error or a panic.

The decoders of identifiers and of lists of varbinds are recursive functions, and a list has any
length. A recursive definition chooses a function that satisfies an equation, so that there is
one has to be shown first: `Recursion` does this for any recursion on a size, here the room left
for elements and the bytes left of the message (`IdentifierFunction`, `VarbindListFunction`).
Induction is done on the set of the sizes for which a statement holds (`SetInduction`, from the
well-foundedness of the naturals), which takes no operator as a parameter.

Only model-checked: liveness, and the fairness in `ImplementsService`, which are out of the
prover's reach. These are `SendCompletes`, `ImplementsService` as a whole,
`EveryRequestIsAnswered`, and the liveness properties of `lifecycle` and `client_context`. Every
invariant of a passing run is proved.

## 6. Not modelled

* V1 traps on the sending side: nothing in the library makes one. V1Trap.decode, which
  reads nothing, is in `decodeCommunityMessage`.
* Values of types that neither side supports in full (counters, gauges, time ticks, opaque,
  64-bit): they have constructors and no encoders.
* Numbers beyond 2^31 - 1 in the codec, which TLC cannot represent.
* The request pool: `FreeV2cRequest` fills it and nothing takes from it.
* Ids that wrap onto an outstanding request (`NoWrapAssumption`).
* Parsing of identifiers, which nothing in the library calls, logging, and names of constants.
* Transactions of an agent beyond their start: there is no call of commit or abort.

## 7. Plan

Done, in this order: request path with its service and first proofs; lifecycle; statistics;
agent; codec; the order of identifiers; the client context as a whole; bit strings and the
pool of buffers; the two refinements of the client context proved; what a call of SendRequest
gets, and that it is what `RequestService` promises; the statistics; order and values of the
agent's answers; single bits of bit strings; encodings read back, from integers to whole
messages; shutdown of a client context as a whole.

Next: messages that are not short, once decodeLength reads what setContentLength writes (a
length of several bytes is a number of base 256, for which `BerProofs` has the lemmas); values of
the types that neither side supports yet, as they come; callers of Shutdown in an agent as a whole.
