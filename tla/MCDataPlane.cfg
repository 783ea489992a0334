SPECIFICATION DataPlaneSpec
CONSTANTS
  None = None
  r1 = r1
  r2 = r2
  r3 = r3
  x1 = x1
  h1 = h1
  h2 = h2
  Rev = {r1, r2, r3, x1}
  Rejected = {x1}
  Handlers = {h1, h2}
  Keep = 2
  MaxPushes = 3
  MaxFaults = 1
  sni = sni
  Loaders = {sni}
  MaxRestarts = 1
CONSTRAINT RestartsApart
SYMMETRY Symmetric
INVARIANTS NeededNeverPruned AgreesAtRest RunsWholeAccepted ReportedIsRunning
PROPERTIES KeepsContract
