SPECIFICATION Spec
CONSTANTS
  server = server
  cli = cli
  x = x
  shared = shared
  Builders = {server, cli}
  Servers = {server}
  Artifacts = {x}
  KindOf <- Atoms
  Scopes = {"all", "opps"}
  Stores = {shared}
  StoreOf <- OneStore
  Durable = {shared}
  Reverts = FALSE
  MaxText = 2
  MaxRuns = 3
  MaxTime = 2
INVARIANTS
  TypeOK
  RunIdsAreDistinct
  CompletedRunsAreAudited
  FreshWhenDone
PROPERTY
  HistoryStays
