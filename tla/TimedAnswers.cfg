SPECIFICATION TimedSpec
CONSTANTS
  c1 = c1
  c2 = c2
  Calls = {c1, c2}
  MaxInFlight = 3
  Agents = {"bot"}
  Resources = {"r1"}
  Amounts = {1}
  Canonical = {1}
  Grants <- OneGrant
  PerSpendMax = 0
  TotalMax = 2
  ScopeBinding = "off"
  RevocationUrl = TRUE
  FailClosed = TRUE
  Shapes = {}
  VerdictBands = {"B1"}
  ReplyBands = {"none", "B0", "A1", "??"}
  DayLength = 2
  MaxTime = 0
  Pins <- OnePin
  MaxSkew = 1
  MaxExpires = 1
  NoVerdict = NoVerdict
  Kids = {"none", "k1", "k2", "k3"}
  VerifierKeys = {"key1", "key2", "rogue"}
  Bands = {"none", "B0", "B1", "B2", "A1", "??"}
  Operations = {"o1", "o2"}
  Attempts = {"a1", "a2"}
  Offers = {"x"}
  Gates = {"malformed", "barred", "clean"}
  MaxRestarts = 1
  Subs = {"s1", "s2"}
  Events = {"e1", "e2"}
  Wants <- OneFilter
  MaxLog = 1
INVARIANT OneAttemptPerOperation
INVARIANT AllowIsHooksAllow
INVARIANT BandReachesGrant
INVARIANT NoAllowAfterRevocation
INVARIANT NoSubscriberSkipped
INVARIANT DeliveredWasReceived
INVARIANT OnlyFailuresRetried
PROPERTY ClaimsAreKept
PROPERTY AnswersAreFinal
PROPERTY EveryRequestAnswered
PROPERTY EmitEnds
