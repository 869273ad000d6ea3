SPECIFICATION FairSpec
CONSTANTS
  npm = npm  maven = maven  r1 = r1
  Pairs <- PairsSet
  Records <- MCRecords
  Ids = {1, 2, 3, 4}
  Modules = {1, 2}
  Repos = {r1}
  ModuleOf <- MCModuleOf
  HitBy <- MCHitBy
  Display <- MCDisplay
  Severity <- MCSeverity
  Malicious = {3}
  Manifests <- MCManifests
  BadIds = {4}
  BadCommands <- MCBad
  MinRank = 3
  Streak = 2
  Hopeless <- MCHopeless
  TornArtifacts = FALSE
  MaxSweeps = 2
  MaxKills = 1
INVARIANTS
  NothingIsSilentlyClean
PROPERTIES
  EveryAdvisoryIsAnalysed
CHECK_DEADLOCK FALSE
