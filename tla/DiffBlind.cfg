SPECIFICATION Spec
CONSTANTS
  MaxEntries = 2
  Limits = {1, 2}
  JSON <- Values
  Depth <- MCDepth
  Documents <- MCDocuments
  Fold <- MCFold
  Responses <- MCResponses
  FewResponses <- MCFewResponses
  HarFiles <- MCHarFiles
  Sizes <- MCSizes
  Ignoring <- MCIgnoring
INVARIANT DifferentIsShown
