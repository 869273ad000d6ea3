SPECIFICATION Spec
CONSTANTS
  f1 = f1  f2 = f2  o1 = o1  o2 = o2  i1 = i1  i2 = i2  h1 = h1  h2 = h2
  DayLength = 100
  Findings <- OneFinding
  OldIds <- OneOld
  NewId <- ToFirst
  Items <- OneItem
  ItemRef <- ItemOfFirst
  Signers <- Pair
  Decisions <- OnlyDismiss
  Blanks = FALSE
  Refusals = FALSE
  MaxKills = 0
INVARIANTS
  TypeOK
  
  
SYMMETRY Symmetry
CHECK_DEADLOCK FALSE
