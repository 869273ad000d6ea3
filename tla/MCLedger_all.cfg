CONSTANTS
  h1 = h1  h2 = h2  r1 = r1  r2 = r2
  Findings = {"f"}
  Humans = {h1, h2}
  Base = "not_verified"
  Runs = {r1, r2}
  Reports = {1}
  TriageVerdicts <- AllTriage
  Verdicts <- AllVerdicts
  Decisions <- Sign
  DayLength = 2
  MaxTime = 2
  MaxEvents = 3
SPECIFICATION Spec
SYMMETRY Symmetry
CHECK_DEADLOCK FALSE
INVARIANTS  DismissalIsAccountable RefutationIsVisible ProofOutranksOnePerson
PROPERTIES DismissalEndsLoudly VerificationOutranksTickets LifecycleHolds
