SPECIFICATION Spec
CONSTANTS
  Processes = {p1, p2}
  Targets = {6, 8}
INVARIANTS
  VersionIsTrue
PROPERTY
  OpenedIsReady
