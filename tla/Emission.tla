------------------------------- MODULE Emission -------------------------------
(***************************************************************************)
(* What becomes of the verdicts of a triage or a live-validation report:   *)
(* an event of the findings layer, an item of its review queue, an entry   *)
(* of the refuted register, or nothing (emit_triage_ledger_events.py,      *)
(* emit_validation_ledger_events.py); and when findings-current, the       *)
(* cache derived from the layer, is rebuilt.                               *)
(*                                                                         *)
(* An emitter submits events and items in one call of the ledger service,  *)
(* then updates the register, a plain file, and then rebuilds the cache.   *)
(* Emitters of one repository may run at the same time, and each may be    *)
(* killed between two of these writes.  A report is reduced to one         *)
(* verdict; the cache to the number of events it was built from.           *)
(***************************************************************************)
EXTENDS Events

CONSTANTS
  TriageRows,      \* verdicts of triage reports
  ValidationRows,  \* verdicts of validation reports
  Emitters,        \* processes that may emit at the same time
  SaltSet,         \* whether HARNESS_VALVE_SALT is set
  MaxRuns,         \* bound on emissions
  MaxCrashes       \* bound on killed emitters

TriageRow ==
  [ref: STRING, verdict: {"duplicate", "undetermined", "true_positive", "hardening",
                          "false_positive"},
   manual: BOOLEAN,    \* verify_verdict is needs_manual_test
   lint: BOOLEAN,      \* the citation lint has the verdict, with status ok
   dissent: BOOLEAN,   \* a vote for true_positive or hardening
   votes: 0 .. 2,      \* false_positive votes, 2 for "two or more"
   sure: BOOLEAN,      \* confidence at least 8
   low: BOOLEAN,       \* claimed severity low or informational
   sampled: BOOLEAN]   \* the salted hash picks the verdict

ValidationRow ==
  [ref: STRING, verdict: {"confirmed", "refuted", "inconclusive", "not_attempted"},
   attested: {"yes", "no", "absent"},
   legacy: BOOLEAN,    \* older than the attestation and grade gates
   probe: {"sound", "unsound", "stamped"},
   grade: Grades \cup {NoValue},
   proposal: BOOLEAN,  \* carries a severity proposal
   stale: BOOLEAN]     \* the baseline changed after it was validated

ASSUME RowsAssumption ==
  /\ \A r \in TriageRows : r \in TriageRow
  /\ \A r \in ValidationRows : r \in ValidationRow

ASSUME BoundsAssumption == {MaxRuns, MaxCrashes} \subseteq Nat /\ SaltSet \in BOOLEAN

VARIABLES
  log,       \* the layer's events, in append order
  review,    \* needs_review: items as [ref, reason]
  register,  \* the refuted register: entries as [ref, by]
  current,   \* how many events findings-current was built from
  run,       \* what each emitter is doing
  done,      \* history: rows whose events and items were submitted
  last,      \* history: how the latest emitter ended
  runs, crashes

vars == <<log, review, register, current, run, done, last, runs, crashes>>

-----------------------------------------------------------------------------
(* Triage: one verdict.                                                    *)

\* Two concurring votes, no dissent, a clean lint, high confidence, low claim.
IsAutoAccept(r) == r.lint /\ ~r.dissent /\ r.votes >= 2 /\ r.sure /\ r.low

\* Without a salt every auto-accepted dismissal is audited.
ValveSampled(r) == ~SaltSet \/ r.sampled

Word(r) ==
  IF r.verdict = "false_positive" /\ IsAutoAccept(r) THEN "auto_false_positive" ELSE r.verdict

\* Mutant: an unknown verdict falls through to an event.
TriageEventsAll(r) ==
  {[TriageEvent(r.ref, "true_positive", 0) EXCEPT !.validity = r.verdict]}

TriageEvents(r) ==
  IF \/ r.verdict = "true_positive" /\ ~r.manual
     \/ r.verdict \in {"hardening", "false_positive"}
    THEN {TriageEvent(r.ref, Word(r), 0)} ELSE {}

Item(r, reason) == [ref |-> r.ref, reason |-> reason]

\* Mutant: the unconfident confirmation is skipped.
TriageItemsNoManual(r) ==
  {Item(r, reason) : reason \in
     {x \in {"undetermined_finding", "fp_audit_valve"} :
        \/ x = "undetermined_finding" /\ r.verdict = "undetermined"
        \/ x = "fp_audit_valve" /\ Word(r) = "auto_false_positive" /\ ValveSampled(r)}}

TriageItems(r) ==
  {Item(r, reason) : reason \in
     {x \in {"undetermined_finding", "needs_manual_test", "fp_audit_valve"} :
        \/ x = "undetermined_finding" /\ r.verdict = "undetermined"
        \/ x = "needs_manual_test" /\ r.verdict = "true_positive" /\ r.manual
        \/ x = "fp_audit_valve" /\ Word(r) = "auto_false_positive" /\ ValveSampled(r)}}

TriageEntries(r) ==
  IF r.verdict = "false_positive" THEN {[ref |-> r.ref, by |-> "triage_report"]} ELSE {}

-----------------------------------------------------------------------------
(* Validation: one verdict.                                                *)

\* Mutant: the soundness of a refutation is looked at, the environment is not.
FlaggedByProbe(r) ==
  \/ r.verdict = "refuted" /\ r.probe # "sound"
  \/ r.verdict = "inconclusive" /\ r.probe = "stamped"

\* An unattested environment invalidates every verdict; otherwise a refutation
\* must rest on a sound probe.
Flagged(r) ==
  \/ r.attested = "no"
  \/ r.attested = "absent" /\ ~r.legacy
  \/ r.verdict = "refuted" /\ r.probe # "sound"
  \/ r.verdict = "inconclusive" /\ r.probe = "stamped"

\* An inference-only or, in a new report, an ungraded confirmation.
Quarantined(r) ==
  /\ r.verdict = "confirmed"
  /\ r.grade = "E3" \/ (r.grade = NoValue /\ ~r.legacy)

Ledgered(r) == r.verdict \in {"confirmed", "refuted"} /\ ~Flagged(r) /\ ~Quarantined(r)

ValidationEvents(r) ==
  IF Ledgered(r)
    THEN {[ValidationEvent(1, r.ref, r.verdict, 0) EXCEPT !.grade = r.grade]} ELSE {}

ValidationItems(r) ==
  {Item(r, reason) : reason \in
     {x \in {"unsound_refutation", "quarantined_confirmation", "severity_proposal",
             "stale_baseline"} :
        \/ x = "unsound_refutation" /\ Flagged(r)
        \/ x = "quarantined_confirmation" /\ ~Flagged(r) /\ Quarantined(r)
        \/ x = "severity_proposal" /\ Ledgered(r) /\ r.proposal /\ r.grade # "E3"
        \/ x = "stale_baseline" /\ Ledgered(r) /\ r.stale}}

\* Mutant: every refutation is registered, sound or not.
ValidationEntriesAll(r) ==
  IF r.verdict = "refuted" THEN {[ref |-> r.ref, by |-> "validation_report"]} ELSE {}

ValidationEntries(r) ==
  IF r.verdict = "refuted" /\ Ledgered(r)
    THEN {[ref |-> r.ref, by |-> "validation_report"]} ELSE {}

-----------------------------------------------------------------------------
(* The emitters.                                                           *)

Idle == [step |-> "idle"]

Start(p, plan) ==
  /\ run[p] = Idle
  /\ runs < MaxRuns
  /\ runs' = runs + 1
  /\ run' = [run EXCEPT ![p] = plan]
  /\ UNCHANGED <<log, review, register, current, done, last, crashes>>

EmitTriage(p, r) ==
  Start(p, [step |-> "submit", by |-> "triage", row |-> r, events |-> TriageEvents(r),
            items |-> TriageItems(r), entries |-> TriageEntries(r), grew |-> FALSE])

EmitValidation(p, r) ==
  Start(p, [step |-> "submit", by |-> "validation", row |-> r, events |-> ValidationEvents(r),
            items |-> ValidationItems(r), entries |-> ValidationEntries(r), grew |-> FALSE])

InLog(e) == \E i \in DOMAIN log : EventId(log[i]) = EventId(e)

\* One atomic call of the ledger service.
Submit(p) ==
  /\ run[p].step = "submit"
  /\ LET fresh == {e \in run[p].events : ~InLog(e)} IN
       /\ log' = IF fresh = {} THEN log ELSE Append(log, CHOOSE e \in fresh : TRUE)
       /\ run' = [run EXCEPT ![p].step = "register", ![p].grew = (fresh # {})]
  /\ review' = review \cup run[p].items
  /\ done' = done \cup {run[p].row}
  /\ UNCHANGED <<register, current, last, runs, crashes>>

\* Mutant: a changed verdict is news only when it is a confirmation.
RebuildsOnProof(r) == r.grew /\ r.row.verdict = "confirmed"

\* The triage skill always rebuilds after the emitter, the validation emitter
\* when it appended something.
Rebuilds(r) == r.by = "triage" \/ r.grew

Ended(p) == [run EXCEPT ![p] = IF Rebuilds(run[p]) THEN [step |-> "build"] ELSE Idle]

AtEnd(p) == last' = IF Rebuilds(run[p]) THEN last ELSE "completed"

Unregistered(p) ==
  /\ run[p].step = "register" /\ run[p].entries = {}
  /\ run' = Ended(p) /\ AtEnd(p)
  /\ UNCHANGED <<log, review, register, current, done, runs, crashes>>

\* The triage emitter writes the file anew.
WriteRegister(p) ==
  /\ run[p].step = "register" /\ run[p].entries # {} /\ run[p].by = "triage"
  /\ register' = run[p].entries
  /\ run' = Ended(p) /\ AtEnd(p)
  /\ UNCHANGED <<log, review, current, done, runs, crashes>>

\* merge_register: read, add what is missing, write.
ReadRegister(p) ==
  /\ run[p].step = "register" /\ run[p].entries # {} /\ run[p].by = "validation"
  /\ run' = [run EXCEPT ![p] = [step |-> "merge", by |-> run[p].by, row |-> run[p].row,
               entries |-> run[p].entries, grew |-> run[p].grew, copy |-> register]]
  /\ UNCHANGED <<log, review, register, current, done, last, runs, crashes>>

\* Mutant: the new entries take the place of the old ones.
MergedAlone(copy, entries) == entries

Merged(copy, entries) == copy \cup entries

MergeRegister(p) ==
  /\ run[p].step = "merge"
  /\ register' = IF run[p].entries \subseteq run[p].copy THEN register
                 ELSE Merged(run[p].copy, run[p].entries)
  /\ run' = Ended(p) /\ AtEnd(p)
  /\ UNCHANGED <<log, review, current, done, runs, crashes>>

\* build_cumulative reads the layer and replays it ...
ReadLayer(p) ==
  /\ run[p].step = "build"
  /\ run' = [run EXCEPT ![p] = [step |-> "write", upto |-> Len(log)]]
  /\ UNCHANGED <<log, review, register, current, done, last, runs, crashes>>

\* ... and writes the report.
WriteCurrent(p) ==
  /\ run[p].step = "write"
  /\ current' = run[p].upto
  /\ run' = [run EXCEPT ![p] = Idle]
  /\ last' = "completed"
  /\ UNCHANGED <<log, review, register, done, runs, crashes>>

Crash(p) ==
  /\ run[p] # Idle
  /\ crashes < MaxCrashes
  /\ crashes' = crashes + 1
  /\ run' = [run EXCEPT ![p] = Idle]
  /\ last' = "killed"
  /\ UNCHANGED <<log, review, register, current, done, runs>>

Init ==
  /\ log = <<>> /\ review = {} /\ register = {} /\ current = 0
  /\ run = [p \in Emitters |-> Idle]
  /\ done = {} /\ last = "none" /\ runs = 0 /\ crashes = 0

Next ==
  \E p \in Emitters :
    \/ \E r \in TriageRows : EmitTriage(p, r)
    \/ \E r \in ValidationRows : EmitValidation(p, r)
    \/ Submit(p)
    \/ Unregistered(p) \/ WriteRegister(p) \/ ReadRegister(p) \/ MergeRegister(p)
    \/ ReadLayer(p) \/ WriteCurrent(p)
    \/ Crash(p)

Spec == Init /\ [][Next]_vars

-----------------------------------------------------------------------------
Reasons == {"undetermined_finding", "needs_manual_test", "fp_audit_valve",
            "unsound_refutation", "quarantined_confirmation", "severity_proposal",
            "stale_baseline"}

TypeOK ==
  /\ \A i \in DOMAIN log : /\ log[i].validity \in Validities
                           /\ log[i].src \in {"triage_report", "validation_report"}
  /\ \A x \in review : x.reason \in Reasons
  /\ \A x \in register : x.by \in {"triage_report", "validation_report"}
  /\ current \in 0 .. Len(log)
  /\ done \subseteq TriageRows \cup ValidationRows

AtRest == \A p \in Emitters : run[p] = Idle

Refutations(src) ==
  {i \in DOMAIN log : log[i].src = src /\ log[i].validity = "false_positive"}

Meaning ==
  [true_positive |-> "confirmed", confirmed |-> "confirmed", hardening |-> "hardening",
   false_positive |-> "false_positive", refuted |-> "false_positive"]

Producer(r) == IF r \in TriageRows THEN "triage_report" ELSE "validation_report"

Logged(r) ==
  /\ r.verdict \in DOMAIN Meaning
  /\ \E i \in DOMAIN log : /\ log[i].ref = r.ref /\ log[i].src = Producer(r)
                           /\ log[i].validity = Meaning[r.verdict]

Queued(r) ==
  \E x \in review :
    /\ x.ref = r.ref
    /\ x.reason \in {"undetermined_finding", "needs_manual_test", "unsound_refutation",
                     "quarantined_confirmation"}

\* A verdict that says anything of a finding "must not evaporate": whatever
\* gates it met, once emitted it is in the log as its producer meant it, or in
\* front of a human.
NothingEvaporates ==
  \A r \in done :
    r.verdict \notin {"duplicate", "inconclusive", "not_attempted"} => Logged(r) \/ Queued(r)

\* A refutation by live validation is in the log, or in the register, only if
\* some run tested the claim with a sound probe where it could be tested.
OnlySoundProbesDismiss ==
  \A f \in {log[i].ref : i \in Refutations("validation_report")}
            \cup {x.ref : x \in {y \in register : y.by = "validation_report"}} :
    \E r \in done \cap ValidationRows :
      /\ r.ref = f /\ r.verdict = "refuted" /\ r.probe = "sound"
      /\ r.attested = "yes" \/ (r.attested = "absent" /\ r.legacy)

\* The register holds no refutation that its author did not log.
RegisterIsBacked ==
  \A x \in register : \E i \in Refutations(x.by) : log[i].ref = x.ref

\* "Every FP stays in the refuted register": nothing leaves the falsification
\* scope because someone said "false positive".
EveryRefutationIsRegistered ==
  AtRest /\ crashes = 0 =>
    \A src \in {"triage_report", "validation_report"} : \A i \in Refutations(src) :
      [ref |-> log[i].ref, by |-> src] \in register

\* "findings-current is regenerated from the ledger on every run": when an
\* emitter has run to its end and nothing else is running, the cache is the
\* replay of the whole log.
CurrentFollowsTheLog == AtRest /\ last = "completed" => current = Len(log)
=============================================================================
