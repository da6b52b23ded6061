SPECIFICATION OneProcess
CONSTANTS
  aws = aws
  local = local
  Factories <- MCFactories
  Local <- MCLocal
  Config <- MCConfig
  Defaults <- MCDefaults
  StartTime = 3
  MaxTime = 9
INVARIANT
  UploadsRespectFrequency
