CONSTANTS
  Interactions = {i1}
  Keys = {k1, k2, k3}
  Callers = {c1, c2}
  Creator = {c1}
  Creators <- CreatorsOfAll
SPECIFICATION Spec
SYMMETRY Symmetry
INVARIANTS
  IndexCountsReceipts
  StateIsLastReceipt
  EventsWereAccepted
  AnswersAgree
PROPERTIES
  RacingContractSpec
  
