SPECIFICATION Spec
CONSTANTS
  p1 = p1  p2 = p2
  DayLength = 1
  TriageRows <- Triaged
  ValidationRows <- Validated
  Emitters <- Two
  SaltSet = FALSE
  MaxRuns = 3
  MaxCrashes = 1
INVARIANTS
  TypeOK
  
  OnlySoundProbesDismiss
  RegisterIsBacked
CHECK_DEADLOCK FALSE
