SPECIFICATION Spec
CONSTANTS
  Creds = {"x"}
  c1 = c1
  c2 = c2
  Calls = {c1, c2}
  Cards <- EveryCard
  Setups <- SomeSetups
  CacheTtl = 1
  CrlLife = 1
  MaxTime = 2
INVARIANT NonceStopsReplay
