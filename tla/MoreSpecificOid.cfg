\* A handler is registered for the beginning of the identifier that is asked for.
SPECIFICATION Spec
CONSTANTS
  h1 = h1
  h2 = h2
  v1 = v1
  short = short
  nil = nil
  Oids <- NestedOids
  Handlers = {h1}
  Writable = {h1}
  ReadOnly = {}
  Fallible = {}
  Values = {v1}
  OfType <- SomeTypes
  InitialValues = {v1}
  Nils = {}
  Unencodable = {}
  PduTypes = {"GET"}
  maxTargets = 1
  MaxRequests = 1
  MaxVarbinds = 1
  NoValue = NoValue
  NoSuchObject = NoSuchObject
  NoNode = NoNode
  NoRequest = NoRequest
INVARIANTS
  MoreSpecificIsServed
CHECK_DEADLOCK FALSE
