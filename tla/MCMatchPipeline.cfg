SPECIFICATION Spec
CHECK_DEADLOCK FALSE
CONSTANTS
  Atoms = {1, 2}
  AtomTokens <- TheTokens
  KLexical = 1
  KEmbedding = 1
  Runners = {"tool", "demo", "check"}
  KindOf <- Kinds
  Opps <- TheOpps
  Opportunities <- TheOpportunities
  Verifieds <- TheVerifieds
  DemoOpp = "o"
  DemoRequirements <- TheDemo
  DemoVerified <- TheDemoAtoms
  DemoOptions <- TheOptions
  Requests <- TheRequests
  Drafts <- TheDrafts
  Overrides <- TheOverrides
  HitLists <- TheHits
  MaxRuns = 2
  MaxFaults = 1
INVARIANTS
  TypeOK
  ReportsAreBest
  UnverifiedIsNamed
  MatcherMeetsRules
  OverridesAreEarned
  DecisionsAreTraced
