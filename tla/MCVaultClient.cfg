SPECIFICATION FairSpec
CONSTANTS
  n1 = n1
  n2 = n2
  n3 = n3
  NoNode = NoNode
  Nodes = {n1, n2, n3}
  UrlLists <- MCTwoUrls
INVARIANTS
  TypeOK
  LeaderIsNotMissed
  FailureForgetsConnection
PROPERTIES
  SnapshotOnlyFromLeader
  AttemptIsBounded
  AttemptEnds
  SettledAttemptEnds
  RecoversFromElections
