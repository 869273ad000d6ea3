SPECIFICATION FairSpec
CONSTANTS
  p1 = p1
  p2 = p2
  v1 = v1
  v2 = v2
  r1 = r1
  r2 = r2
  r3 = r3
  r4 = r4
  base = base
  adv = adv
  NoClaim = NoClaim
  Mixed = FALSE
  Runs <- TwoRuns
  Reports <- TwoReports
  RegsOf <- RegsOfTwo
  Advisories <- OneAdvisory
  Baseline <- MCBaseline
  MaxCrashes = 2
INVARIANTS
  BackReferenceResolves
  FiledOnce
PROPERTIES
  FiledClaimsStay
  EveryRegressionIsFiled
  RefusalHeals
CHECK_DEADLOCK FALSE
