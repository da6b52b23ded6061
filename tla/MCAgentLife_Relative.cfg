SPECIFICATION Spec
CONSTANTS
  f1 = f1
  f2 = f2
  Files = {f1, f2}
  Setups <- MCSetups
  MaxCollectors = 3
INVARIANT
  FilesAreFound
CHECK_DEADLOCK FALSE
