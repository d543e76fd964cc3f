SPECIFICATION Spec
CONSTANTS
  c1 = c1
  c2 = c2
  c3 = c3
  Calls = {c1, c2, c3}
  MaxInFlight = 2
  Agents = {"bot"}
  Resources = {"r1"}
  Amounts = {1, 2}
  Canonical = {1, 2}
  Grants <- OneGrant
  PerSpendMax = 2
  TotalMax = 4
  ScopeBinding = "off"
  RevocationUrl = FALSE
  FailClosed = TRUE
  Shapes = {}
  VerdictBands = {"B1"}
  ReplyBands = {"B1"}
  DayLength = 2
  MaxTime = 2
  Pins <- OnePin
  MaxSkew = 1
  MaxExpires = 1
  NoVerdict = NoVerdict
  Kids = {"none", "k1", "k2", "k3"}
  VerifierKeys = {"key1", "key2", "rogue"}
  Bands = {"none", "B0", "B1", "B2", "A1", "??"}
INVARIANT TotalBudgetKept
