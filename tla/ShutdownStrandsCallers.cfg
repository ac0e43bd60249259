\* Shutdown while a call of SendRequest is in progress.
SPECIFICATION FairSpec
CONSTANTS
  r1 = r1
  r2 = r2
  k1 = k1
  k2 = k2
  Requests = {r1}
  Clients = {k1}
  Retries = 1
  maxTargets = 1
  ResponseCap = 1
  StatCap = 1
  IdSpace = 2
  MaxSends = 1
  Reusable = {}
  MayShutdown = TRUE
  NoRequest = NoRequest
  NoResponse = NoResponse
PROPERTIES
  SendCompletes
CHECK_DEADLOCK FALSE
