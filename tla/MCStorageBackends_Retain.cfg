SPECIFICATION Spec
CONSTANTS
  eu = eu
  us = us
  raft = raft
  snap = snap
  Locations = {eu, us}
  Setups <- MCSetupsIgnoredSuffix
  PageSize = 3
  MaxUploads = 6
INVARIANT
  MostRecentAreKept
CHECK_DEADLOCK FALSE
