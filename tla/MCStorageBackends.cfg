SPECIFICATION Spec
CONSTANTS
  eu = eu
  us = us
  raft = raft
  snap = snap
  Locations = {eu, us}
  Setups <- MCSetups
  PageSize = 3
  MaxUploads = 6
INVARIANTS
  TypeOK
  MostRecentAreKept
  CleanRoundLeavesRetain
PROPERTY
  ImplementsRetention
CHECK_DEADLOCK FALSE
