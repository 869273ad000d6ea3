SPECIFICATION FairSpec
CONSTANTS
  p1 = p1  p2 = p2
  Fetchers <- One
  MaxRecords = 3
  MaxDay = 3
  Backfill = 1
  PerPage = 1
  MaxPages = 3
  AuditDay = 1
  Similar = {2, 3}
  MaxEvents = 1
  MaxFaults = 1
  Inclusive = TRUE
  BackDated = FALSE
  TornPayload = FALSE

  
PROPERTIES
  FirstFindsAreStamped
CHECK_DEADLOCK FALSE
