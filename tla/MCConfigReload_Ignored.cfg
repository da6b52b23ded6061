SPECIFICATION ReloadSpec
CONSTANTS
  aws = aws
  local = local
  Files <- MCFiles
  InitialFile <- MCInitialFile
  DefaultFrequency = 3
  MaxChanges = 3
PROPERTY
  InvalidFileIsIgnored
CHECK_DEADLOCK FALSE
