CONSTANTS
  Interactions = {i1}
  Keys = {k1, k2, k3, k4}
  Callers = {c1, c2}
SPECIFICATION Spec
SYMMETRY Symmetry
INVARIANTS
  TypeOK
  ReceiptsTellTheLife
  AnswersAgree
  IndexWithinRank
PROPERTIES
  ReplayIsAnswered
  ContractSpec
