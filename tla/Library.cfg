SPECIFICATION LibSpec
CONSTANTS
  Nonces = {"n1"}
  Calls = {c1, c2, c3}
  c1 = c1
  c2 = c2
  c3 = c3
  Ttl = 1
  Retention = 1
  MaxTime = 3
  MaxClock = 5
  Interval = 2
  Overlap = 3
  MaxRotations = 3
  AprIds = {"apr1", "apr2"}
  AprTtls = {0, 2}
  GateCalls = {"call1", "call2", "call3"}
  GateTtl = 2
  GateTimeout = 1
  Checks = {"k1", "k2", "k3", "k4"}
  MaxTokens = 2
  TokenUnit = 2
  RefillRate = 1
  TtlSlack = 1
  EvalDelay = 1
  HeadEvery = 3
  HeadAge = 2
  MaxEntries = 7
  MaxReceipts = 8
  MaxPublished = 3
  OrgIds = {"org1", "org2"}
  ApiKeys = {"key1", "key2", "key3"}
  Credentials = {"cred"}
  Addresses = {"a1"}
  Limit = 2
  Window = 1
  MaxCounted = 6
  VpCredentials <- SomeCredentials
  VpContexts <- SomeContexts
  VpRuns = {"v1"}
  Signers = {"s1", "s2"}
  SigPolicies <- SomeSigPolicies
  MaxSigs = 3
  Manifests <- SomeManifests
  Policies <- SomePolicies
  Scores = {0, 5, 6, 7, 9, 13, 14, 15, 16, 20}
INVARIANT MarkedOnce
INVARIANT OverlapKept
INVARIANT LateOnlyUnseen
INVARIANT BucketBounds
INVARIANT ProvableWithSiblings
INVARIANT TrailAnswers
INVARIANT HeadsCoverLog
INVARIANT KeyOpensItsOrg
INVARIANT AllowIsEarned
INVARIANT UnderTwiceLimit
INVARIANT QuorumStands
INVARIANT ChecksFollowPolicy
PROPERTY MoreTrustNeverStricter
PROPERTY NullOnlyAfterExpiry
PROPERTY PermitIsRecent
CHECK_DEADLOCK FALSE
