\* Two requests share two clients, one of them is sent twice; the context may
\* be shut down at any moment, after which everything may stop.
SPECIFICATION Spec
CONSTANTS
  r1 = r1
  r2 = r2
  k1 = k1
  k2 = k2
  Requests = {r1, r2}
  Clients = {k1, k2}
  Retries = 1
  maxTargets = 1
  ResponseCap = 1
  StatCap = 1
  IdSpace = 4
  MaxSends = 3
  Reusable = {r1}
  MayShutdown = TRUE
  NoRequest = NoRequest
  NoResponse = NoResponse
SYMMETRY Symmetry
INVARIANTS
  TypeOK
  OneNotifyPerWait
  IdsLeadBack
  RetryBudget
  OneInFlightPerClient
  ResponseIsOurs
  EitherResponseOrError
  OneClock
PROPERTIES
  ResendWhenTimerRanOut
CHECK_DEADLOCK FALSE
