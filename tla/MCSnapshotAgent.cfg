SPECIFICATION FairSpec
CONSTANTS
  aws = aws
  local = local
  Files <- MCFiles
  InitialFile <- MCInitialFile
  DefaultFrequency = 3
  MaxChanges = 2
  StartTime = 1
  MaxTime = 7
  Hour = 4
INVARIANTS
  TypeOK
  NeverTooLate
  AnnouncedIsScheduled
  StartConfigIsStable
PROPERTIES
  ReloadExcludesSnapshot
  DoesNotHammer
  ImplementsService
  SnapshotsContinue
  ReloadIsServed
  SignalIsServed
CHECK_DEADLOCK FALSE
