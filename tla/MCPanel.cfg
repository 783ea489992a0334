SPECIFICATION PanelSpec
CONSTANTS
  Builder = {b1, b2}
  Approver = {a1}
  Contents <- MCContents
  MaxRemovedPercent = 30
  MaxAdded = 3
  MaxVersions = 2
  MaxBuilds = 2
  MaxRequests = 3
  MaxFailures = 2
  Restore = {r1, r2}
  MaxBackups = 1
  MaxStops = 1
  Node = {n1, n2}
  Handler = {h1, h2}
  MaxOps = 4
  Nil = Nil
  Token = {t1, t2, t3}
  Editor = {e1, e2}
  MaxFaults = 1
  Call = {c1, c2}
  Name = {"a", "b"}
  Slugged = {"s", "t"}
  MaxSets = 2
  MaxExtra = 2
  MaxAborts = 1
SYMMETRY Symmetry
INVARIANTS
  PointerAgrees PartialNeedsApproval OldPasswordOut SecondFactorSound GuessesBounded
  PanelIsOne OperatorsWordStands CreatedOnce TokensMatch WizardRetries
PROPERTIES EmptiedOnlyByApproval
CHECK_DEADLOCK FALSE
