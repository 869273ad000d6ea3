SPECIFICATION Spec
CONSTANTS
  f1 = f1  f2 = f2
  a = a  b = b  crd = crd  core = core
  Order <- MCOrder
  Chains <- MCChains
  Objects <- MCObjects
  Operand <- MCOperand
  OffLimits = {core}
  Worlds <- MCWorlds
  Answers <- MCAnswers
  MaxRuns = 2
  MaxKills = 1
INVARIANTS
  
  
  VerdictsRestOnProbes
  ChainsFollowFindings
  ReportIsAudited
CHECK_DEADLOCK FALSE
