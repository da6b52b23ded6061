SPECIFICATION FairReloadSpec
CONSTANTS
  aws = aws
  local = local
  Files <- MCFiles
  InitialFile <- MCInitialFile
  DefaultFrequency = 3
  MaxChanges = 3
PROPERTY
  ChangesAreHandled
CHECK_DEADLOCK FALSE
