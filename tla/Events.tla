-------------------------------- MODULE Events --------------------------------
(***************************************************************************)
(* The events that the writers of a findings layer build: what each of     *)
(* them says of a finding, on whose behalf, and the id by which the layer  *)
(* knows it.  Constant-level operators only; the identity of the ledger    *)
(* SDK and its countersign verb are outside the repository and modelled    *)
(* from their use.                                                         *)
(***************************************************************************)
EXTENDS Disposition

CONSTANT DayLength   \* clock ticks per calendar day

ASSUME DayAssumption == DayLength \in Nat \ {0}

\* sha256(source.ref | finding_ref | validity | resolution).  A machine's
\* source.ref is its report's path; a signer's is interactive:<day>:<signer>,
\* with the level added for a severity.
EventId(e) ==
  <<e.src, e.doc, IF e.src = "interactive" THEN e.who ELSE e.src,
    e.ref, e.validity, e.resolution, e.severity>>

MachineEvent(src, doc, f, t) ==
  [ref |-> f, src |-> src, doc |-> doc, who |-> src, kind |-> "machine",
   verified |-> FALSE, auto |-> FALSE, grade |-> NoValue, at |-> t,
   validity |-> NoValue, resolution |-> NoValue, severity |-> NoValue]

\* Triage: the report has one fixed file name.  Only these verdicts become
\* events; the others queue for review.
TriageValidity ==
  [true_positive        |-> "confirmed",
   hardening            |-> "hardening",
   false_positive       |-> "false_positive",
   auto_false_positive  |-> "false_positive"]

TriageEvent(f, v, t) ==
  [MachineEvent("triage_report", 0, f, t) EXCEPT
     !.validity = TriageValidity[v], !.auto = (v = "auto_false_positive")]

\* Validation: the verdicts that pass the attestation, soundness and grade
\* gates.  "confirmed" carries an E0 or E1 grade, "weak" an E2 one.
ValidationEvent(d, f, v, t) ==
  [MachineEvent("validation_report", d, f, t) EXCEPT
     !.validity = IF v = "refuted" THEN "false_positive" ELSE "confirmed",
     !.grade = IF v = "weak" THEN "E2" ELSE "E0"]

VerdictResolution ==
  [resolved             |-> "resolved",
   new_approach         |-> "resolved",
   partially_resolved   |-> "partially_resolved",
   unresolved           |-> "open",
   regression           |-> "regression_introduced",
   risk_accepted        |-> "risk_accepted",
   propagation_pending  |-> "fix_in_progress"]

VerificationEvent(d, f, v, t) ==
  LET e == MachineEvent("verification_report", d, f, t)
  IN IF v = "false_positive" THEN [e EXCEPT !.validity = v]
     ELSE [e EXCEPT !.resolution = VerdictResolution[v]]

\* A transition of the ticket, ingested on behalf of the person who made it.
JiraEvent(d, f, t) ==
  [MachineEvent("jira", d, f, t) EXCEPT !.kind = "human", !.resolution = "resolved"]

\* What the ledger's countersign verb builds from a decision.
SignedEvent(h, f, d, t) ==
  LET e == [MachineEvent("interactive", t \div DayLength, f, t) EXCEPT
              !.who = h, !.kind = "human", !.verified = TRUE]
  IN IF d \in Severities THEN [e EXCEPT !.severity = d]
     ELSE [e EXCEPT !.validity = IF d \in {"keep_open", "reopen"} THEN "confirmed"
                                 ELSE "false_positive"]
=============================================================================
