CONSTANTS
  s1 = s1
  s2 = s2
  i1 = i1
  k1 = k1
  k2 = k2
  Callers <- MCCallers
  Interactions = {i1}
  Keys = {k1, k2}
  Wants <- MCWants
  ChainMode <- MCChainMode
  MaxFaults = 2
SPECIFICATION Spec
INVARIANTS EffectsAreAnnounced ReportsAreTrue ToldIsReported
PROPERTIES RetriesSettle
CHECK_DEADLOCK FALSE
