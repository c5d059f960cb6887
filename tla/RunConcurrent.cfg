SPECIFICATION FairSpec
CONSTANTS
  token = token
  user = user
  Vars <- TwoVars
  Sessions <- ChainOnly
  Loop = 1
  Concurrency = 2
  DryRuns <- BothWays
  WantsFile = TRUE
  Binds <- JsonBinds
  EnvSet <- UserOnly
  Answers <- JsonAnswer
INVARIANTS Inductive RaceFree ConcurrencyBound BoundedReordering FileIsComplete
PROPERTIES FileAfterWorkers ImplementsRun Termination
