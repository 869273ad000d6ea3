SPECIFICATION Spec
CONSTANTS
  p1 = p1  p2 = p2
  DayLength = 1
  TriageRows = {}
  ValidationRows <- TwoRefuted
  Emitters <- One
  SaltSet = FALSE
  MaxRuns = 4
  MaxCrashes = 0
INVARIANTS
  EveryRefutationIsRegistered
  
CHECK_DEADLOCK FALSE
