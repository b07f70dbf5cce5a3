SPECIFICATION Spec
SYMMETRY Symmetry
CONSTANTS
  a = a
  b = b
  c = c
  p = p
  q = q
  own = own
  shared = shared
  Traces = {shared}
  EventIds = {e1, e2, e3}
  Threads = {a, b}
  Processes = {p}
  ProcessOf <- OneProcess
  Uses <- AllShared
  MaxIndex <- MaxLong
INVARIANT
  AllChainsVerify
