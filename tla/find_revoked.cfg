CONSTANTS
  su = su
  w1 = w1
  w2 = w2
  Null = Null
  SA = SA
  Users = {su}
  Roles = {"super_user", "user"}
  MaxIds = 2
  Threads = {w1, w2}
  Policies <- TwoPolicies
  CapMax = 2
  ConcurrentMax = 1
  StaleMax = 1
  TTL = 1
  AwayAfter = 1
  IdleAfter = 2
SPECIFICATION SessionsSpec
INVARIANT RevokedIsOut
