SPECIFICATION FairSpec
CONSTANTS
  token = token
  user = user
  Vars <- TwoVars
  Sessions <- AllSessions
  Loop = 2
  Concurrency = 0
  DryRuns <- BothWays
  WantsFile = TRUE
  Binds <- AllBinds
  EnvSet <- UserOnly
  Answers <- AllAnswers
INVARIANTS TypeOK RaceFree SerialSubstitution ExitZeroIsComplete
PROPERTY Termination
