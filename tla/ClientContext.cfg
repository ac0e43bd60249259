\* One call on a context that may fail or be shut down around it.
SPECIFICATION ContextFairSpec
CONSTANTS
  r1 = r1
  k1 = k1
  u1 = u1
  Requests = {r1}
  Clients = {k1}
  Users = {u1}
  Retries = 1
  maxTargets = 1
  ResponseCap = 1
  StatCap = 1
  IdSpace = 2
  MaxSends = 1
  Reusable = {}
  MayShutdown = TRUE
  NoRequest = NoRequest
  NoResponse = NoResponse
PROPERTIES
  ImplementsTracker
  ImplementsLifecycle
  CallersAreServed
CHECK_DEADLOCK FALSE
