SPECIFICATION FairSpec
CONSTANTS
  a = a
  b = b
  Order <- InOrder
  Audited0 = {a}
  Pinned0 = {a}
  Host <- Forge
  Live <- LiveHighs
  Archived = {}
  Public = {}
  Forks = {}
  Designation <- Names
  Modelled = {a}
  CloudAudited = {}
  Companions = {b}
  Pushes <- Pushed
  Injections <- Asked
  Conditions <- Meets
  Ceiling <- Ceilings
  Tightened <- Ceilings
  DormantDays = 0
  StaleDays = 1
  MaxListAge = 1
  WeekLength = 1
  P0Live = 2
  DrainWeeks = 2
  HorizonWeeks = 1
  Overnight = FALSE
  Cap = 1
  MaxInputs = 1
INVARIANTS
  
  
  DiffRowsCanRun
  BudgetSparesTheRisky
PROPERTIES
  DecayIsAudited
  
CHECK_DEADLOCK FALSE
