SPECIFICATION Spec
SYMMETRY Symmetry
CONSTANTS
  a = a
  b = b
  c = c
  p = p
  q = q
  own = own
  shared = shared
  Traces = {own, shared}
  EventIds = {e1, e2, e3}
  Threads = {a, c}
  Processes = {p, q}
  ProcessOf <- TwoProcesses
  Uses <- OneOwn
  MaxIndex <- MaxMixed
INVARIANTS
  ReadInOrder
  PrivateChainsVerify
  LinksPointBack
  TamperingShows
