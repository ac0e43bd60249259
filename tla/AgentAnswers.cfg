\* Requests answered while handlers are registered and replaced.
SPECIFICATION FairSpec
CONSTANTS
  h1 = h1
  h2 = h2
  v1 = v1
  short = short
  nil = nil
  Oids <- FlatOids
  Handlers = {h1, h2}
  Writable = {h1, h2}
  ReadOnly = {h2}
  Fallible = {h2}
  Values = {v1, short, nil}
  OfType <- SomeTypes
  InitialValues = {short}
  Nils = {nil}
  Unencodable = {short}
  PduTypes = {"GET", "SET", "GET_NEXT"}
  maxTargets = 1
  MaxRequests = 2
  MaxVarbinds = 2
  NoValue = NoValue
  NoSuchObject = NoSuchObject
  NoNode = NoNode
  NoRequest = NoRequest
INVARIANTS
  TypeOK
  AnsweredByOwnHandler
  AnswersLineUp
  AnswersInOrder
PROPERTIES
  GetReadsLastSet
  EveryRequestIsAnswered
CHECK_DEADLOCK FALSE
