SPECIFICATION PacedSpec
CONSTANTS
  main = main
  Callers <- OneCaller
  Configs <- MCConfigs
  RPS = 2
  Second = 3
  MaxTime = 6
  NJobs = 5
INVARIANT RatePerSecond
\* The clock bound MaxTime stops the system, and so does its end.
CHECK_DEADLOCK FALSE
