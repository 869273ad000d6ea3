SPECIFICATION Spec
CONSTANTS
  f1 = f1  f2 = f2
  a = a  b = b  crd = crd  core = core
  Order <- MCOrder
  Chains <- MCChains
  Objects <- MCObjects
  Operand <- MCOperand
  OffLimits = {core}
  Worlds <- OneCreate
  Answers <- MCAnswers
  MaxRuns = 1
  MaxKills = 1
INVARIANT OperandSurvives
CHECK_DEADLOCK FALSE
