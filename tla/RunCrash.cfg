SPECIFICATION Spec
CONSTANTS
  token = token
  user = user
  Vars <- TwoVars
  Sessions <- LoginOnly
  Loop = 1
  Concurrency = 2
  DryRuns <- NotDry
  WantsFile = TRUE
  Binds <- JsonBinds
  EnvSet <- UserOnly
  Answers <- JsonAnswer
INVARIANT RunSurvives
