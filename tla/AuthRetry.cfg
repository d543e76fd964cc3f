SPECIFICATION AuthSpec
CONSTANTS
  c1 = c1
  c2 = c2
  Calls = {c1, c2}
  MaxInFlight = 1
  Agents = {"bot"}
  Resources = {"r1"}
  Amounts = {1}
  Canonical = {1}
  Grants <- OneGrant
  PerSpendMax = 0
  TotalMax = 2
  ScopeBinding = "off"
  RevocationUrl = FALSE
  FailClosed = TRUE
  Shapes = {}
  VerdictBands = {"B1"}
  ReplyBands = {"B1"}
  DayLength = 2
  MaxTime = 0
  Pins <- OnePin
  MaxSkew = 1
  MaxExpires = 1
  NoVerdict = NoVerdict
  Kids = {"none", "k1", "k2", "k3"}
  VerifierKeys = {"key1", "key2", "rogue"}
  Bands = {"none", "B0", "B1", "B2", "A1", "??"}
  Operations = {"o1"}
  Attempts = {"a1"}
  Offers = {"x"}
  Gates = {"clean"}
  MaxRestarts = 0
PROPERTY FailedAttemptNotRecharged
