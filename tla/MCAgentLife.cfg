SPECIFICATION FairSpec
CONSTANTS
  f1 = f1
  f2 = f2
  Files = {f1, f2}
  Setups <- MCSetups
  MaxCollectors = 3
INVARIANTS
  TypeOK
  OnlyCurrentServes
  MissingSecretsFail
PROPERTIES
  PortIsHandedOver
  LoopGoesOn
  SignalEndsProcess
  MetricsComeUp
CHECK_DEADLOCK FALSE
