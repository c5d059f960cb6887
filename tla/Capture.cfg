SPECIFICATION FairSpec
CONSTANTS
  c1 = c1
  c2 = c2
  site = site
  api = api
  quiet = quiet
  noise = noise
  Stopper = stopper
  NoOne = noone
  NoHost = nohost
  Conns <- MCConns
  Hosts <- MCHosts
  Urls <- FewUrls
  HostOf <- MCHostOf
  Certified <- MCHosts
  Patterns <- MCPatterns
  Hits <- MCHits
  Exclude <- NoiseOnly
  IncludeOnly <- NoPatterns
  MaxExchanges = 2
INVARIANTS Inductive FileIsCurrent AnsweredIsRecorded RecordedInOrder
PROPERTIES RecordedEventually StopEnds
