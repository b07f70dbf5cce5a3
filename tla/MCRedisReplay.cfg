CONSTANTS
  Interactions = {i1}
  Keys = {k1, k2}
  Callers = {c1}
  Creator = {c1}
  Creators <- CreatorsOfAll
SPECIFICATION Spec
PROPERTIES
  ReplayIsAnswered
