----------------------------- MODULE Disposition -----------------------------
(***************************************************************************)
(* The merge rules of the disposition ledger: how the events recorded      *)
(* about one finding derive its current disposition                        *)
(* (src/traust/cli/build_cumulative.py, event_class and                    *)
(* derive_disposition).  Constant-level operators only; Ledger and         *)
(* Countersign evaluate them over the logs they build.                     *)
(*                                                                         *)
(* The code sorts a finding's events by recorded_at with Python's stable   *)
(* sort and then takes the last element of filtered lists.  Here a         *)
(* finding's events are a set S of positions of the log, Before is the     *)
(* order the sort produces, and Latest is the last element of a subset.    *)
(***************************************************************************)
EXTENDS Naturals, Sequences, FiniteSets

NoValue == "none"   \* an axis an event does not speak on; an absent field

Validities  == {"confirmed", "corrected", "false_positive", "not_verified",
                "hardening"}
Resolutions == {"open", "fix_in_progress", "resolved", "partially_resolved",
                "risk_accepted", "regression_introduced"}
Severities  == {"critical", "high", "medium", "low", "informational"}
SourceTypes == {"triage_report", "validation_report", "verification_report",
                "jira", "interactive"}
Grades      == {"E0", "E1", "E2", "E3"}

\* Mutant: tickets and verification reports on one tier.
ResolutionTierFlat(e) == IF e.src \in {"verification_report", "jira"} THEN 0 ELSE 2

\* Lower number = higher authority for the resolution axis.
ResolutionTier(e) ==
  CASE e.src = "verification_report" -> 0
    [] e.src = "jira"                -> 1
    [] OTHER                         -> 2

ExecSourceTypes == {"validation_report", "verification_report"}

\* 1 = execution-verified, 2 = human static, 3 = machine static.
EventClass(e) ==
  IF e.grade \in {"E2", "E3"}        THEN 3
  ELSE IF e.kind = "human"           THEN 2
  ELSE IF e.src \in ExecSourceTypes  THEN 1
  ELSE 3

-----------------------------------------------------------------------------
(* The order of replay.                                                    *)

Before(log, i, j) ==
  \/ log[i].at < log[j].at
  \/ log[i].at = log[j].at /\ i < j

Latest(log, S) == CHOOSE i \in S : \A j \in S \ {i} : Before(log, j, i)

EventsOf(log, f) == {i \in DOMAIN log : log[i].ref = f}

-----------------------------------------------------------------------------
(* The validity axis.                                                      *)

Spoken(log, S)     == {i \in S : log[i].validity # NoValue}
Class(log, S, c)   == {i \in Spoken(log, S) : EventClass(log[i]) = c}
Saying(log, S, v)  == {i \in S : log[i].validity = v}

LastWord(log, S)   == log[Latest(log, S)].validity

\* Mutant: the auto-accept bar is not looked at.
StaticValidityNoBar(base, log, S) ==
  LET human   == Class(log, S, 2)
      machine == Class(log, S, 3)
  IN IF human # {} THEN LastWord(log, human)
     ELSE IF machine # {} THEN LastWord(log, machine)
     ELSE base

\* Static determinations: the latest human one, else the latest machine one;
\* a machine false_positive below the auto-accept bar sets nothing.
StaticValidity(base, log, S) ==
  LET human   == Class(log, S, 2)
      machine == Class(log, S, 3)
      last    == log[Latest(log, machine)]
  IN IF human # {} THEN LastWord(log, human)
     ELSE IF machine # {} /\ (last.validity = "false_positive" => last.auto)
       THEN last.validity
       ELSE base

\* Mutant: a refutation by execution decides like a confirmation.
DecisiveWithRefutations(log, S) == Class(log, S, 1)

\* Execution-class events that decide directly: every one but a refutation.
Decisive(log, S) == Class(log, S, 1) \ Saying(log, S, "false_positive")

\* A confirmation by execution is the word to beat.
Proven(log, S) ==
  /\ Decisive(log, S) # {}
  /\ LastWord(log, Decisive(log, S)) = "confirmed"

HumanDismissals(log, S) == Class(log, S, 2) \cap Saying(log, S, "false_positive")

\* Human dismissals recorded strictly after the proof ...
Reassertions(log, S) ==
  {i \in HumanDismissals(log, S) :
      log[i].at > log[Latest(log, Decisive(log, S))].at}

\* ... and the verified identities behind them.
PostProofSigners(log, S) ==
  {log[i].who : i \in {j \in Reassertions(log, S) : log[j].verified}}

\* Mutant: counts the re-assertions, not the people who made them.
TwoPersonRuleByEvents(log, S) == Cardinality(Reassertions(log, S)) >= 2

TwoPersonRule(log, S) == Cardinality(PostProofSigners(log, S)) >= 2

Validity(base, log, S) ==
  IF Decisive(log, S) = {} THEN StaticValidity(base, log, S)
  ELSE IF Proven(log, S) /\ TwoPersonRule(log, S) THEN "false_positive"
  ELSE LastWord(log, Decisive(log, S))

\* The proof overturned an earlier human dismissal, and no two-person
\* re-assertion has settled it since.
FpOverridden(log, S) ==
  /\ Proven(log, S)
  /\ HumanDismissals(log, S) # Reassertions(log, S)
  /\ ~TwoPersonRule(log, S)

FpReassertionBlocked(log, S) ==
  /\ Proven(log, S)
  /\ Reassertions(log, S) # {}
  /\ ~TwoPersonRule(log, S)

\* Mutant: only what people said counts as a conflict.
ConflictAmongHumans(log, S) ==
  {"confirmed", "false_positive"} \subseteq {log[i].validity : i \in Class(log, S, 2)}

\* Both sides in evidence: adjudicated as a conflict, never as an unopposed
\* countersign.
Conflict(log, S) ==
  {"confirmed", "false_positive"} \subseteq {log[i].validity : i \in Spoken(log, S)}

MachineRefutations(log, S) ==
  {i \in Saying(log, S, "false_positive") : log[i].kind = "machine" /\ ~log[i].auto}

\* Mutant: only static refutations ask for a signature.
RefutedAwaitingSignoffStatic(base, log, S) ==
  /\ MachineRefutations(log, S) \cap Class(log, S, 3) # {}
  /\ Validity(base, log, S) # "false_positive"
  /\ Class(log, S, 2) = {}
  /\ ~Conflict(log, S)

RefutedAwaitingSignoff(base, log, S) ==
  /\ MachineRefutations(log, S) # {}
  /\ Validity(base, log, S) # "false_positive"
  /\ Class(log, S, 2) = {}
  /\ ~Conflict(log, S)

-----------------------------------------------------------------------------
(* The other axes.                                                         *)

Assurance(log, S) ==
  IF Class(log, S, 1) # {}       THEN "execution_proven"
  ELSE IF Class(log, S, 2) # {}  THEN "human_reviewed"
  ELSE IF Class(log, S, 3) # {}  THEN "machine_verified"
  ELSE "claimed"

\* Latest within the highest populated tier.
Resolution(log, S) ==
  LET spoken == {i \in S : log[i].resolution # NoValue}
      best   == {i \in spoken : \A j \in spoken :
                    ResolutionTier(log[i]) <= ResolutionTier(log[j])}
  IN IF spoken = {} THEN "open" ELSE log[Latest(log, best)].resolution

\* The latest human severity event; the audit's severity is never rewritten.
SeverityOverride(log, S) ==
  LET spoken == {i \in S : log[i].severity # NoValue /\ EventClass(log[i]) = 2}
  IN IF spoken = {} THEN NoValue ELSE log[Latest(log, spoken)].severity

\* What derive_disposition returns for a finding whose baseline validity is
\* base and whose events are at the positions S.
Derive(base, log, S) ==
  [validity             |-> Validity(base, log, S),
   resolution           |-> Resolution(log, S),
   assurance            |-> Assurance(log, S),
   severity             |-> SeverityOverride(log, S),
   conflict             |-> Conflict(log, S),
   awaiting_signoff     |-> RefutedAwaitingSignoff(base, log, S),
   fp_overridden        |-> FpOverridden(log, S),
   reassertion_blocked  |-> FpReassertionBlocked(log, S)]
=============================================================================
