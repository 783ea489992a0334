SPECIFICATION Spec
CONSTANTS
  Builder = {b1, b2}
  Approver = {a1}
  Contents <- MCContents
  MaxRemovedPercent = 30
  MaxAdded = 3
  MaxVersions = 3
  MaxBuilds = 3
PROPERTIES NeverEmptiedSilently
