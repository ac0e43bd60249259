\* A late handleTimeout goroutine of an earlier call on the same request.
SPECIFICATION Spec
CONSTANTS
  r1 = r1
  r2 = r2
  k1 = k1
  k2 = k2
  Requests = {r1}
  Clients = {k1}
  Retries = 1
  maxTargets = 1
  ResponseCap = 1
  StatCap = 1
  IdSpace = 3
  MaxSends = 2
  Reusable = {r1}
  MayShutdown = FALSE
  NoRequest = NoRequest
  NoResponse = NoResponse
PROPERTIES
  SendsAreSpaced
