SPECIFICATION Spec
CONSTANTS
  None = None
  n1 = n1
  n2 = n2
  r1 = r1
  r2 = r2
  x1 = x1
  Node = {n1, n2}
  Rev = {r1, r2, x1}
  Refused <- OneRefused
  CanaryOf <- MCCanaryOf
  MaxDeploys = 2
  FanOut = 1
  MaxFaults = 1
CONSTRAINT FaultsApart
SYMMETRY Symmetric
INVARIANTS OneActive
PROPERTIES ActiveRanEverywhere
