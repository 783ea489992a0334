SPECIFICATION BackgroundSpec
CONSTANTS
  None = None
  r1 = r1
  r2 = r2
  x1 = x1
  h1 = h1
  Rev = {r1, r2, x1}
  Rejected = {x1}
  Handlers = {h1}
  Keep = 2
  MaxPushes = 3
  MaxFaults = 1
  sni = sni
  Loaders = {sni}
  MaxRestarts = 1
  NoJob = NoJob
  Job = {j1, j2}
  Worker = {w1, w2}
  MaxAttempts = 2
  MaxJobFaults = 1
INVARIANTS Exclusive SucceedsOnce AttemptsBounded
PROPERTIES ReportedComesToRun Settles
