SPECIFICATION FairSpec
CONSTANTS
  f1 = f1  f2 = f2  o1 = o1  o2 = o2  i1 = i1  i2 = i2  h1 = h1  h2 = h2
  DayLength = 100
  Findings <- OneFinding
  OldIds = {}
  NewId <- Nothing
  Items <- OneItem
  ItemRef <- ItemOfFirst
  Signers <- Alone
  Decisions <- MoreWords
  Blanks = TRUE
  Refusals = TRUE
  MaxKills = 1
PROPERTY RefutationsAreDecided
CHECK_DEADLOCK FALSE
