\* Contexts of both kinds: bind failures, socket errors, two calls of Shutdown;
\* a context that is shut down stops.
SPECIFICATION FairSpec
CONSTANTS
  u1 = u1
  u2 = u2
  Users = {u1, u2}
  Roles = {"client", "agent"}
  maxTargets = 1
  ResponseCap = 1
  StatCap = 1
INVARIANTS
  TypeOK
  QuietAfterShutdown
PROPERTIES
  InboundDeathSpreads
  OutboundDeathSpreads
  RoutingEnds
  ShutdownHangsOnlyOnFullChannel
CHECK_DEADLOCK FALSE
