SPECIFICATION Spec
CONSTANTS
  None = None
  r1 = r1
  r2 = r2
  h1 = h1
  Rev = {r1, r2}
  Rejected = {}
  Handlers = {h1}
  Keep = 3
  MaxPushes = 4
  MaxFaults = 1
INVARIANT AckedIsActive
CHECK_DEADLOCK FALSE
