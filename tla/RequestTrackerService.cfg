\* The tracker against the service a caller is promised, liveness included.
SPECIFICATION FairSpec
CONSTANTS
  r1 = r1
  r2 = r2
  k1 = k1
  k2 = k2
  Requests = {r1, r2}
  Clients = {k1, k2}
  Retries = 1
  maxTargets = 1
  ResponseCap = 1
  StatCap = 1
  IdSpace = 3
  MaxSends = 2
  Reusable = {}
  MayShutdown = FALSE
  NoRequest = NoRequest
  NoResponse = NoResponse
PROPERTIES
  ImplementsService
  SendCompletes
