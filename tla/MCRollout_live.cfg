SPECIFICATION LiveSpec
CONSTANTS
  None = None
  n1 = n1
  n2 = n2
  r1 = r1
  r2 = r2
  x1 = x1
  Node = {n1, n2}
  Rev = {r1, r2}
  Refused <- NoneRefused
  CanaryOf <- MCCanaryOf
  MaxDeploys = 2
  FanOut = 1
  MaxFaults = 2
PROPERTIES Converges Finishes
