SPECIFICATION FairStoreSpec
CONSTANTS
  c1 = c1
  c2 = c2
  Candidates <- MCCandidates
  LastPhase = 3
  ShardPhase = 1
  MaxRuns = 2
  FreshFlag = FALSE
INVARIANTS
  ResumeIsComplete
PROPERTIES
  PositionMovesForward
  RunCompletes
CHECK_DEADLOCK FALSE
