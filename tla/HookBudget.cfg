SPECIFICATION Spec
CONSTANTS
  c1 = c1
  c2 = c2
  c3 = c3
  Calls = {c1, c2, c3}
  MaxInFlight = 2
  Agents = {"bot", "owl"}
  Resources = {"r1"}
  Amounts = {1, 2, 3, 4}
  Canonical = {1, 3}
  Grants <- OwlGrant
  PerSpendMax = 3
  TotalMax = 3
  ScopeBinding = "off"
  RevocationUrl = TRUE
  FailClosed = TRUE
  Shapes = {}
  VerdictBands = {"B1"}
  ReplyBands = {"B1"}
  DayLength = 1
  MaxTime = 1
  Pins <- OnePin
  MaxSkew = 1
  MaxExpires = 1
  NoVerdict = NoVerdict
  Kids = {"none", "k1", "k2", "k3"}
  VerifierKeys = {"key1", "key2", "rogue"}
  Bands = {"none", "B0", "B1", "B2", "A1", "??"}
SYMMETRY CallSymmetry
INVARIANT TotalOvershootBounded
INVARIANT DailyOvershootBounded
PROPERTY LedgerAgrees
