SPECIFICATION Spec
CONSTANTS
  Nonces = {"n1"}
  Calls = {c1, c2}
  c1 = c1
  c2 = c2
  Ttl = 1
  Retention = 1
  MaxTime = 3
  Grace = 1
INVARIANT MarkedOnce
