SPECIFICATION Spec
CONSTANTS
  c1 = c1
  c2 = c2
  Calls = {c1, c2}
  MaxInFlight = 2
  Agents = {"bot"}
  Resources = {"r1", "r2"}
  Amounts = {1, 2}
  Canonical = {1, 2}
  Grants <- TwoGrants
  PerSpendMax = 0
  TotalMax = 0
  ScopeBinding = "strict"
  RevocationUrl = FALSE
  FailClosed = TRUE
  Shapes <- ShapesTwo
  VerdictBands = {"B1"}
  ReplyBands = {"none"}
  DayLength = 2
  MaxTime = 1
  Pins <- TwoPins
  MaxSkew = 0
  MaxExpires = 0
  NoVerdict = NoVerdict
  Kids = {"none", "k1", "k2", "k3"}
  VerifierKeys = {"key1", "key2", "rogue"}
  Bands = {"none", "B0", "B1", "B2", "A1", "??"}
SYMMETRY CallSymmetry
INVARIANT BackedByOwnVerdict
INVARIANT VerdictSpentOnce
INVARIANT NoVerdictOfRevokedKey
