SPECIFICATION Spec
CONSTANTS
  aws = aws
  local = local
  Factories <- MCFactories
  Local <- MCLocal
  Config <- MCConfig
  Defaults <- MCDefaults
  StartTime = 3
  MaxTime = 9
INVARIANTS
  TypeOK
  NextIsEarliest
  LastGoodSurvives
PROPERTIES
  DeletesOnlyObsolete
  ImplementsStore
