SPECIFICATION BothSpec
CONSTANTS
  Requests = {"r1", "r2"}
  Asks <- SomeAsks
  Cards = {"card"}
  Handlers = 1
  DrainTime = 1
  MaxRestarts = 1
  Addresses = {"a1", "a2"}
  Limit = 1
  Window = 1
  MaxCounted = 2
  MaxClock = 2
  Nonces = {"n1", "n2"}
  Calls = {c1, c2, c3}
  c1 = c1
  c2 = c2
  c3 = c3
  Ttl = 1
  Retention = 1
  MaxTime = 3
INVARIANT RevocationIsSeen
INVARIANT AllowLeavesReceipt
INVARIANT OneTimeUse
PROPERTY ShutdownEnds
PROPERTY KeepsPromise
CHECK_DEADLOCK FALSE
