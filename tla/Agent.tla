------------------------------- MODULE Agent -------------------------------
(***************************************************************************)
(* An agent: the listener, which answers one request after the other       *)
(* (processCommunityRequest), the tree of handlers that users register     *)
(* meanwhile, and the transmitter that empties the queue of responses.     *)
(*                                                                         *)
(* Handlers hold one value each and serve one type of varbind, as those of *)
(* agent_support for octet strings and object identifiers do; those that   *)
(* users write (oidHandler is an interface) may fail as well.  The tree is *)
(* the map from identifiers to handlers that it stands for.                *)
(***************************************************************************)
EXTENDS ObjectIdentifiers

CONSTANTS
  Oids,          \* identifiers that are asked for or registered
  Handlers,
  Writable,      \* those that are ever writable
  ReadOnly,      \* those that ever are not; one in both is switched by SetWritable
  Fallible,      \* those whose Get and Set may return an error
  Values,
  OfType,        \* the values, for each handler, of the type that it serves
  InitialValues, \* those that handlers are made with
  Nils,          \* values that are Go's nil, which decodeMsg leaves where it failed
  Unencodable,   \* values that encode refuses, such as identifiers of one element
  PduTypes,      \* of the requests that come in
  maxTargets,    \* capacity of outboundFlowControlQueue
  MaxRequests,   \* bound: requests in one behaviour
  MaxVarbinds,   \* bound: varbinds in a request
  NoValue,       \* the value of a NullVarbind
  NoSuchObject,  \* the value of a NoSuchObjectVarbind
  NoNode,        \* Go's nil, for a node of the tree
  NoRequest

ASSUME AgentAssumption ==
  /\ Oids \subseteq Seq(Nat)
  /\ Writable \union ReadOnly = Handlers /\ Fallible \subseteq Handlers
  /\ NoNode \notin Handlers
  /\ OfType \in [Handlers -> SUBSET Values]
  /\ InitialValues \subseteq Values \ Nils /\ {NoValue, NoSuchObject} \cap Values = {}
  /\ PduTypes \subseteq {"GET", "SET", "GET_NEXT", "GET_BULK"}
  /\ maxTargets \in Nat \ {0} /\ MaxRequests \in Nat /\ MaxVarbinds \in Nat \ {0}

VARIABLES
  tree,      \* oidTree
  val,       \* the value of each handler
  pc,        \* listener: "read", "startTxn", "lookup", "handle" or "panicked"
  req,       \* the request in hand
  at,        \* index of the varbind it has come to
  node,      \* handler found for that varbind
  resp,      \* the response being built
  queue,     \* outboundFlowControlQueue, of each response what is left to know
  transmitting,  \* processOutboundQueue has not returned
  received,  \* history: number of requests that have come in
  taken,     \* history: the responses taken off the queue, and what became of them
  origin,    \* history: for each varbind of the response, the index of the one that it
             \*          answers and the handler that gave it (NoNode if none did)
  mayAnswer, \* history: for each OID, the handlers it has had since the request came
             \*          in, NoNode if it had none as that came in
  expected   \* history: value of each OID, by registrations and sets

handlerVars  == <<tree, val, expected>>
listenVars   == <<pc, req, at, node, resp, received, origin, mayAnswer>>
transmitVars == <<transmitting, taken>>

vars == <<handlerVars, listenVars, queue, transmitVars>>

Varbinds == [oid : Oids, value : Values \union {NoValue, NoSuchObject}]

Requests == [id : 1 .. MaxRequests, pduType : PduTypes, varbinds : Seq(Varbinds)]

\* A SET gives values to the identifiers it names, other requests do not.  What
\* encode refuses does not come in.
RequestVarbinds(pduType) ==
  [oid : Oids, value : IF pduType = "SET" THEN Values \ Unencodable ELSE {NoValue}]

Init ==
  /\ tree = <<>>
  /\ val \in [Handlers -> InitialValues] /\ \A h \in Handlers : val[h] \in OfType[h]
  /\ pc = "read"
  /\ req = NoRequest /\ at = 1 /\ node = NoNode /\ resp = NoRequest
  /\ received = 0
  /\ queue = <<>> /\ transmitting = TRUE /\ taken = <<>>
  /\ origin = <<>> /\ mayAnswer = [o \in Oids |-> {}]
  /\ expected = <<>>

-----------------------------------------------------------------------------
(***************************************************************************)
(* The tree of handlers.                                                   *)
(***************************************************************************)

Registered == DOMAIN tree

\* llrb: the first node, in the order of Compare, that is not before oid.
NotBefore(oid) == {n \in Registered : Compare(oid, n) <= 0}

Ceil(oid) == CHOOSE n \in NotBefore(oid) : \A m \in NotBefore(oid) : Compare(n, m) <= 0

lookupHandler(oid) ==
  IF NotBefore(oid) = {} \/ MatchLength(Ceil(oid), oid) # Len(Ceil(oid))
  THEN NoNode
  ELSE tree[Ceil(oid)]

Put(f, oid, v) == [o \in DOMAIN f \union {oid} |-> IF o = oid THEN v ELSE f[o]]

\* Any handler under any identifier, in the middle of a request or not.
RegisterSingleVarOidHandler(oid, h) ==
  /\ tree' = Put(tree, oid, h)
  /\ expected' = Put(expected, oid, val[h])
  /\ mayAnswer' = IF pc = "read" THEN mayAnswer
                  ELSE [mayAnswer EXCEPT ![oid] = @ \union {h}]
  /\ UNCHANGED <<val, pc, req, at, node, resp, received, origin, queue, transmitVars>>

-----------------------------------------------------------------------------
(***************************************************************************)
(* processCommunityRequest, on the goroutine of the listener.              *)
(***************************************************************************)

\* createResponse.
newResponse(id) == [id |-> id, resourceUnavailable |-> FALSE, varbinds |-> <<>>]

\* The id of a request is here the order in which it is read.
Receive(pduType, vbs) ==
  /\ pc = "read"
  /\ received < MaxRequests
  /\ received' = received + 1
  /\ req' = [id |-> received + 1, pduType |-> pduType, varbinds |-> vbs]
  /\ at' = 1
  /\ resp' = newResponse(received + 1) /\ origin' = <<>>
  /\ mayAnswer' = [o \in Oids |-> {IF o \in Registered THEN tree[o] ELSE NoNode}]
  /\ pc' = "startTxn"
  /\ UNCHANGED <<handlerVars, node, queue, transmitVars>>

\* Without a transaction the request is processed all the same.
StartTxn ==
  /\ pc = "startTxn"
  /\ \E started \in BOOLEAN : resp' = [resp EXCEPT !.resourceUnavailable = ~started]
  /\ pc' = "lookup"
  /\ UNCHANGED <<handlerVars, req, at, node, received, origin, mayAnswer, queue, transmitVars>>

requestVb == req.varbinds[at]

\* Mutation: no varbind is added.
LeaveVarbindOut(value, by) == UNCHANGED <<resp, origin>>

AddVarbind(value, by) ==
  /\ resp' = [resp EXCEPT !.varbinds = Append(@, [oid |-> requestVb.oid, value |-> value])]
  /\ origin' = Append(origin, [at |-> at, by |-> by])

\* Under oidTreeLock.
Lookup ==
  /\ pc = "lookup"
  /\ at <= Len(req.varbinds)
  /\ LET found == lookupHandler(requestVb.oid)
     IN IF found = NoNode
        THEN /\ AddVarbind(NoSuchObject, NoNode)
             /\ at' = at + 1
             /\ UNCHANGED <<node, pc>>
        ELSE /\ node' = found
             /\ pc' = "handle"
             /\ UNCHANGED <<resp, origin, at>>
  /\ UNCHANGED <<handlerVars, req, received, mayAnswer, queue, transmitVars>>

Get ==
  /\ req.pduType = "GET"
  /\ AddVarbind(val[node], node)
  /\ UNCHANGED <<val, expected>>

\* Those of agent_support never do.
GetFails ==
  /\ req.pduType = "GET"
  /\ node \in Fallible
  /\ UNCHANGED <<resp, origin, val, expected>>

\* What a handler need not refuse.
Accepts(h, value) == h \in Writable /\ value \in OfType[h]

\* Mutation: the value is not kept.
SetNothing ==
  /\ req.pduType = "SET"
  /\ Accepts(node, requestVb.value) /\ requestVb.value \notin Nils
  /\ AddVarbind(requestVb.value, node)
  /\ expected' = [o \in Registered |-> IF tree[o] = node THEN requestVb.value ELSE expected[o]]
  /\ UNCHANGED val

\* Every identifier that the handler serves now has the value; the one asked for is
\* not among them if the handler has been replaced since the lookup.
Set ==
  /\ req.pduType = "SET"
  /\ Accepts(node, requestVb.value) /\ requestVb.value \notin Nils
  /\ val' = [val EXCEPT ![node] = requestVb.value]
  /\ AddVarbind(requestVb.value, node)
  /\ expected' = [o \in Registered |-> IF tree[o] = node THEN requestVb.value ELSE expected[o]]

MayRefuse(h, value) == h \in ReadOnly \union Fallible \/ value \notin OfType[h]

SetFails ==
  /\ req.pduType = "SET"
  /\ MayRefuse(node, requestVb.value)
  /\ UNCHANGED <<resp, origin, val, expected>>

\* Requests of other types call no handler.
CallNoHandler ==
  /\ req.pduType \in {"GET_NEXT", "GET_BULK"}
  /\ UNCHANGED <<resp, origin, val, expected>>

\* The handler found may have been replaced in the tree by now.  Where it is not
\* called or fails, the varbind is left out of the response.
Handle ==
  /\ pc = "handle"
  /\ Get \/ GetFails \/ Set \/ SetFails \/ CallNoHandler
  /\ at' = at + 1
  /\ node' = NoNode
  /\ pc' = "lookup"
  /\ UNCHANGED <<tree, req, received, mayAnswer, queue, transmitVars>>

\* The type is right and there is no value: a panic, and the end of the program.
SetPanics ==
  /\ pc = "handle"
  /\ req.pduType = "SET"
  /\ Accepts(node, requestVb.value) /\ requestVb.value \in Nils
  /\ pc' = "panicked"
  /\ UNCHANGED <<handlerVars, req, at, node, resp, received, origin, mayAnswer, queue, transmitVars>>

\* Of a response in the queue, whether encode will accept it.
Queued(r) ==
  [id |-> r.id,
   encodable |-> \A i \in DOMAIN r.varbinds : r.varbinds[i].value \notin Unencodable]

\* Mutation: the listener gives up a response when the queue is full.
sendOrDropResponse ==
  queue' = IF Len(queue) < maxTargets THEN Append(queue, Queued(resp)) ELSE queue

\* Mutation: the queue has no capacity.
sendResponseAtOnce == queue' = Append(queue, Queued(resp))

sendResponse ==
  /\ Len(queue) < maxTargets
  /\ queue' = Append(queue, Queued(resp))

Respond ==
  /\ pc = "lookup"
  /\ at > Len(req.varbinds)
  /\ sendResponse
  /\ pc' = "read"
  /\ req' = NoRequest /\ resp' = NoRequest /\ at' = 1
  /\ origin' = <<>> /\ mayAnswer' = [o \in Oids |-> {}]
  /\ UNCHANGED <<handlerVars, node, received, transmitVars>>

-----------------------------------------------------------------------------
(***************************************************************************)
(* processOutboundQueue, on a goroutine of its own.                        *)
(***************************************************************************)

Take(fate) ==
  /\ queue' = Tail(queue)
  /\ taken' = Append(taken, [id |-> Head(queue).id, fate |-> fate])
  /\ UNCHANGED <<handlerVars, listenVars>>

Write ==
  /\ Head(queue).encodable
  /\ Take("written")
  /\ UNCHANGED transmitting

\* The response is discarded, and the loop goes on.
EncodeFails ==
  /\ ~Head(queue).encodable
  /\ Take("unencodable")
  /\ UNCHANGED transmitting

\* The goroutine returns, and closes the socket.
WriteFails ==
  /\ Head(queue).encodable
  /\ Take("unwritten")
  /\ transmitting' = FALSE

Transmit ==
  /\ transmitting
  /\ queue # <<>>
  /\ Write \/ EncodeFails \/ WriteFails

\* On a shutdown, of the context or because the listener died.
StopTransmitting ==
  /\ transmitting
  /\ transmitting' = FALSE
  /\ UNCHANGED <<handlerVars, listenVars, queue, taken>>

-----------------------------------------------------------------------------

Listener ==
  \/ \E pduType \in PduTypes, n \in 1 .. MaxVarbinds :
       \E vbs \in [1 .. n -> RequestVarbinds(pduType)] : Receive(pduType, vbs)
  \/ StartTxn
  \/ Lookup
  \/ Handle
  \/ SetPanics
  \/ Respond

Next ==
  /\ pc # "panicked"
  /\ \/ \E oid \in Oids, h \in Handlers : RegisterSingleVarOidHandler(oid, h)
     \/ Listener
     \/ Transmit
     \/ StopTransmitting

Spec == Init /\ [][Next]_vars

\* The listener and the transmitter run; requests and registrations need not come.
Fairness ==
  /\ WF_vars(StartTxn \/ Lookup \/ Handle \/ SetPanics \/ Respond)
  /\ WF_vars(pc # "panicked" /\ Transmit)

FairSpec == Spec /\ Fairness

-----------------------------------------------------------------------------

Responses ==
  [id : 1 .. MaxRequests, resourceUnavailable : BOOLEAN, varbinds : Seq(Varbinds)]

\* The values the variables take (every variable above).
TypeOK ==
  /\ Registered \subseteq Oids /\ \A o \in Registered : tree[o] \in Handlers
  /\ val \in [Handlers -> Values \ Nils] /\ \A h \in Handlers : val[h] \in OfType[h]
  /\ pc \in {"read", "startTxn", "lookup", "handle", "panicked"}
  /\ req \in Requests \union {NoRequest}
  /\ at \in 1 .. MaxVarbinds + 1
  /\ node \in Handlers \union {NoNode}
  /\ resp \in Responses \union {NoRequest}
  /\ received \in 0 .. MaxRequests
  /\ queue \in Seq([id : 1 .. MaxRequests, encodable : BOOLEAN]) /\ Len(queue) <= maxTargets
  /\ transmitting \in BOOLEAN
  /\ taken \in Seq([id : 1 .. MaxRequests, fate : {"written", "unencodable", "unwritten"}])
  /\ origin \in Seq([at : 1 .. MaxVarbinds, by : Handlers \union {NoNode}])
  /\ mayAnswer \in [Oids -> SUBSET (Handlers \union {NoNode})]
  /\ DOMAIN expected = Registered /\ \A o \in Registered : expected[o] \in Values

(***************************************************************************)
(* Every answer was given by a handler that was registered under exactly   *)
(* the identifier asked for at some time since the request came in; or it  *)
(* is "NoSuchObject", no handler gave it, and the identifier had none when *)
(* the request came in.  Handlers may be registered, replaced and moved    *)
(* meanwhile (lookupHandler, RegisterSingleVarOidHandler).                 *)
(***************************************************************************)
AnsweredByOwnHandler ==
  pc # "read" =>
    /\ Len(origin) = Len(resp.varbinds)
    /\ \A i \in DOMAIN origin :
         /\ origin[i].by \in mayAnswer[resp.varbinds[i].oid]
         /\ origin[i].by = NoNode <=> resp.varbinds[i].value = NoSuchObject

\* The handlers that leave a varbind out of the answer to a request.
MayLeaveOut(h, vb) ==
  \/ req.pduType = "GET" /\ h \in Fallible
  \/ req.pduType = "SET" /\ MayRefuse(h, vb.value)
  \/ req.pduType \in {"GET_NEXT", "GET_BULK"}

(***************************************************************************)
(* The answers are to varbinds of the request, in their order, to each at  *)
(* most once.  A varbind that was passed over without an answer had a      *)
(* handler that may fail: none is left out for want of a handler, or when  *)
(* no handler that its identifier has had could refuse it                  *)
(* (processCommunityRequest).                                              *)
(***************************************************************************)
AnswersLineUp ==
  pc # "read" =>
    /\ \A i \in DOMAIN origin :
         /\ origin[i].at < at
         /\ \A k \in 1 .. i - 1 : origin[k].at < origin[i].at
         /\ resp.varbinds[i].oid = req.varbinds[origin[i].at].oid
    /\ \A j \in 1 .. at - 1 :
         \/ \E i \in DOMAIN origin : origin[i].at = j
         \/ \E h \in mayAnswer[req.varbinds[j].oid] \ {NoNode} :
              MayLeaveOut(h, req.varbinds[j])

(***************************************************************************)
(* The transmitter takes the responses in the order in which the requests  *)
(* were read, each once.  It writes each but those that cannot be encoded, *)
(* until a write fails, which is the last thing it does.  A request whose  *)
(* response it has not taken is being answered or in the queue: none is    *)
(* lost between the two, or overtaken, however full the queue was          *)
(* (processCommunityRequest, sendResponse, processOutboundQueue).          *)
(***************************************************************************)
AnswersInOrder ==
  /\ \A i \in 1 .. Len(taken) :
       /\ taken[i].id = i
       /\ taken[i].fate = "unwritten" => i = Len(taken) /\ ~transmitting
  /\ \A i \in 1 .. Len(queue) : queue[i].id = Len(taken) + i
  /\ received = Len(taken) + Len(queue) + (IF pc = "read" THEN 0 ELSE 1)
  /\ pc # "read" => resp.id = received

\* The handler found is still the one in the tree.
NodeIsCurrent == requestVb.oid \in Registered /\ tree[requestVb.oid] = node

(***************************************************************************)
(* A GET that finds the handler that is registered under its identifier    *)
(* reads what the last accepted SET wrote, of this identifier or of any    *)
(* other that the handler then served, or what the handler held when it    *)
(* was registered since.  A SET through a handler that has been replaced   *)
(* changes nothing here (Get and Set of the handlers,                      *)
(* RegisterSingleVarOidHandler).                                           *)
(***************************************************************************)
GetReadsLastSet ==
  [][pc = "handle" /\ req.pduType = "GET" /\ NodeIsCurrent /\ resp' # resp =>
         resp'.varbinds[Len(resp'.varbinds)].value = expected[requestVb.oid]]_vars

(***************************************************************************)
(* Unless the transmitter ends or a SET of nil ends the program, every     *)
(* request that was read is answered in the end: its response has been     *)
(* written, or could not be encoded, however full the queue was            *)
(* (processCommunityRequest, sendResponse, processOutboundQueue).          *)
(***************************************************************************)
EveryRequestIsAnswered ==
  <>[](\/ ~transmitting
       \/ pc = "panicked"
       \/ \A n \in 1 .. received :
            \E i \in DOMAIN taken : taken[i].id = n /\ taken[i].fate # "unwritten")

(***************************************************************************)
(* "It's ok for the request OID to be more specific than the OID specified *)
(* by the handler" (lookupHandler, agent.go:83): a handler that is there   *)
(* for the beginning of an identifier serves it.                           *)
(***************************************************************************)
MoreSpecificIsServed ==
  pc # "read" =>
    \A i \in DOMAIN resp.varbinds :
      resp.varbinds[i].value = NoSuchObject =>
        \A o \in Oids : NoNode \notin mayAnswer[o] => MatchLength(o, resp.varbinds[i].oid) < Len(o)
=============================================================================
