SPECIFICATION NodeSpec
CONSTANTS
  dns = dns
  sni = sni
  Loaders = {dns, sni}
  MaxWrites = 3
  MaxRestarts = 1
  Target = {"t1", "t2"}
  Policies <- MCPolicies
  FailThreshold = 2
  RiseThreshold = 1
  MaxApplies = 1
  Conn = {"c1", "c2"}
  Limits = {1, 2}
  MaxChunks = 1
INVARIANTS SettledIsFresh NoEgressOnlyIfNone SlotsKept HalfCloseDelivers
PROPERTIES VerdictsFollow SessionsEnd
CHECK_DEADLOCK FALSE
