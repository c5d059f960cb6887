SPECIFICATION Spec
CONSTANTS
  c1 = c1
  c2 = c2
  site = site
  api = api
  quiet = quiet
  noise = noise
  Stopper = stopper
  NoOne = noone
  NoHost = nohost
  Conns <- MCConns
  Hosts <- MCHosts
  Urls <- MCUrls
  HostOf <- MCHostOf
  Certified <- MCHosts
  Patterns <- MCPatterns
  Hits <- MCHits
  Exclude <- NoiseOnly
  IncludeOnly <- ApiOnly
  MaxExchanges = 1
INVARIANT UnseenIsFiltered
