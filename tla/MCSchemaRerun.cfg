SPECIFICATION Spec
CONSTANTS
  Processes = {p1}
  Targets = {6, 8}
INVARIANT
  RerunsSucceed
