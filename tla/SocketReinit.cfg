\* The socket of a context that nobody shuts down fails.
SPECIFICATION FairSpec
CONSTANTS
  u1 = u1
  u2 = u2
  Users = {u1}
  Roles = {"client"}
  maxTargets = 1
  ResponseCap = 1
  StatCap = 1
PROPERTIES
  SocketComesBack
CHECK_DEADLOCK FALSE
