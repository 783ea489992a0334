SPECIFICATION Spec
CONSTANTS
  sni = sni
  Loaders = {sni}
  MaxWrites = 2
  MaxRestarts = 0
INVARIANT NoMissedSwap
CHECK_DEADLOCK FALSE
