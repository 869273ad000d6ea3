-------------------------------- MODULE Ledger --------------------------------
(***************************************************************************)
(* One findings layer -- the append-only event log of an audited           *)
(* repository -- and the programs that write to it: the triage, validation *)
(* and verification emitters, the countersign workbench and the ingestion  *)
(* of Jira transitions.                                                    *)
(*                                                                         *)
(* A run of a program is several steps: it takes its append timestamp when *)
(* it starts, the two execution emitters then read the layer to keep their *)
(* timestamp monotonic, and only later does the ledger service append the  *)
(* event, dropping it when its id is already there.  Runs interleave with  *)
(* one another and with the clock, and may be killed between any two       *)
(* steps.  The ledger service itself (deduplication by event_id, the       *)
(* countersign verb) is outside the repository and modelled from its use.  *)
(***************************************************************************)
EXTENDS Events

CONSTANTS
  Findings,        \* ids of the baseline's findings
  Humans,          \* identities that can hold a verified ledger token
  Base,            \* validation_status of the baseline's findings
  Runs,            \* processes that may be writing at the same time
  Reports,         \* numbers of the report files of one producer
  TriageVerdicts,  \* verdicts a triage report may hold
  Verdicts,        \* verdicts a validation or verification report may hold
  Decisions,       \* decisions a signer may take
  MaxTime,         \* bound on the clock
  MaxEvents        \* bound on events in the log and in flight

ASSUME BaseAssumption == Base \in Validities \ {"false_positive"}

ASSUME VocabularyAssumption ==
  /\ TriageVerdicts \subseteq
       {"true_positive", "hardening", "false_positive", "auto_false_positive"}
  /\ Verdicts \subseteq
       {"confirmed", "weak", "refuted", "false_positive", "resolved", "new_approach",
        "partially_resolved", "unresolved", "regression", "risk_accepted",
        "propagation_pending", "done"}
  /\ Decisions \subseteq
       Severities \cup {"keep_open", "reopen", "false_positive", "override_false_positive"}

ASSUME BoundsAssumption ==
  /\ Reports \subseteq Nat
  /\ MaxTime \in Nat
  /\ MaxEvents \in Nat

VARIABLES
  log,    \* the layer's events, in append order
  now,    \* the clock, in ticks
  run,    \* what each process is doing
  word    \* history: the last thing each author submitted about each finding

vars == <<log, now, run, word>>

-----------------------------------------------------------------------------
(* Events.                                                                 *)

Machines == {"triage_report", "validation_report", "verification_report", "jira"}
Authors  == Machines \cup Humans

Event ==
  [ref: Findings, src: SourceTypes, doc: Nat, who: Authors,
   kind: {"human", "machine"}, verified: BOOLEAN, auto: BOOLEAN,
   grade: Grades \cup {NoValue}, at: 0 .. MaxTime,
   validity: Validities \cup {NoValue},
   resolution: Resolutions \cup {NoValue},
   severity: Severities \cup {NoValue}]

-----------------------------------------------------------------------------
(* Runs.                                                                   *)

Idle         == [step |-> "idle"]
Built(e)     == [step |-> "built", ev |-> e]
Stamped(e)   == [step |-> "stamped", ev |-> e]

RunState == {Idle} \cup [step: {"built", "stamped"}, ev: Event]

InFlight == {r \in Runs : run[r] # Idle}

\* The room left under the bound on events.
Room == Len(log) + Cardinality(InFlight) < MaxEvents

Start(r, e) ==
  /\ run[r] = Idle
  /\ Room
  /\ run' = [run EXCEPT ![r] = Built(e)]
  /\ UNCHANGED <<log, now, word>>

Triage(r) ==
  \E f \in Findings, v \in TriageVerdicts : Start(r, TriageEvent(f, v, now))

Validate(r) ==
  \E d \in Reports, f \in Findings, v \in Verdicts \cap {"confirmed", "weak", "refuted"} :
     Start(r, ValidationEvent(d, f, v, now))

Verify(r) ==
  \E d \in Reports, f \in Findings,
     v \in Verdicts \cap (DOMAIN VerdictResolution \cup {"false_positive"}) :
     Start(r, VerificationEvent(d, f, v, now))

IngestJira(r) ==
  \E d \in Reports, f \in Findings :
     "done" \in Verdicts /\ Start(r, JiraEvent(d, f, now))

Countersign(r) ==
  \E h \in Humans, f \in Findings, d \in Decisions : Start(r, SignedEvent(h, f, d, now))

\* The execution emitters read the layer and raise their timestamp to the
\* latest one in it.
Restamps(e) == e.src \in ExecSourceTypes

StampsWith(e) == {log[i].at : i \in DOMAIN log} \cup {e.at}

Restamp(r) ==
  /\ run[r].step = "built"
  /\ Restamps(run[r].ev)
  /\ \E t \in StampsWith(run[r].ev) :
       /\ \A u \in StampsWith(run[r].ev) : u <= t
       /\ run' = [run EXCEPT ![r] = Stamped([run[r].ev EXCEPT !.at = t])]
  /\ UNCHANGED <<log, now, word>>

\* Mutant: compares whole events, timestamp included.
FreshByContent(e) == \A i \in DOMAIN log : log[i] # e

\* The ledger service appends an event once per id.
Fresh(e) == \A i \in DOMAIN log : EventId(log[i]) # EventId(e)

Submit(r) ==
  /\ \/ run[r].step = "built" /\ ~Restamps(run[r].ev)
     \/ run[r].step = "stamped"
  /\ LET e == run[r].ev IN
       /\ log' = IF Fresh(e) THEN Append(log, e) ELSE log
       /\ word' = [word EXCEPT ![e.ref][e.who] = e]
  /\ run' = [run EXCEPT ![r] = Idle]
  /\ UNCHANGED now

Crash(r) ==
  /\ run[r] # Idle
  /\ run' = [run EXCEPT ![r] = Idle]
  /\ UNCHANGED <<log, now, word>>

Tick ==
  /\ now < MaxTime
  /\ now' = now + 1
  /\ UNCHANGED <<log, run, word>>

Nothing == [validity |-> NoValue]

Init ==
  /\ log = <<>>
  /\ now = 0
  /\ run = [r \in Runs |-> Idle]
  /\ word = [f \in Findings |-> [a \in Authors |-> Nothing]]

Next ==
  \/ Tick
  \/ \E r \in Runs :
       \/ Triage(r) \/ Validate(r) \/ Verify(r) \/ IngestJira(r) \/ Countersign(r)
       \/ Restamp(r) \/ Submit(r) \/ Crash(r)

Spec == Init /\ [][Next]_vars

-----------------------------------------------------------------------------
TypeOK ==
  /\ log \in Seq(Event)
  /\ now \in 0 .. MaxTime
  /\ run \in [Runs -> RunState]
  /\ word \in [Findings -> [Authors -> Event \cup {Nothing}]]

-----------------------------------------------------------------------------
(* What the replay makes of the log.                                       *)

Of(f)           == EventsOf(log, f)
Disposition(f)  == Derive(Base, log, Of(f))
Dismissed(f)    == Validity(Base, log, Of(f)) = "false_positive"

\* Re-ingesting a source is a no-op: however runs interleave, crash and
\* repeat, an event_id is in the log at most once.
NoDuplicateEvents ==
  \A i, j \in DOMAIN log : EventId(log[i]) = EventId(log[j]) => i = j

\* Machines propose a dismissal, they do not enact it: behind every derived
\* false positive there is a verified person's, or an auto-accepted triage
\* refutation that no execution contradicts.
DismissalIsAccountable ==
  \A f \in Findings : Dismissed(f) =>
     \/ \E i \in Of(f) : /\ log[i].who \in Humans /\ log[i].verified
                        /\ log[i].validity = "false_positive"
     \/ /\ Decisive(log, Of(f)) = {}
        /\ \E i \in Of(f) : log[i].src = "triage_report" /\ log[i].auto

\* The two-person rule, stated over the log: a finding that execution has
\* confirmed is a false positive only when two different people each
\* dismissed it later than every proof.
ProofOutranksOnePerson ==
  \A f \in Findings : Dismissed(f) /\ Decisive(log, Of(f)) # {} =>
     \E h, g \in Humans : h # g /\ \A p \in {h, g} :
        \E i \in Of(f) : /\ log[i].who = p
                        /\ log[i].validity = "false_positive"
                        /\ \A j \in Decisive(log, Of(f)) : log[j].at < log[i].at

\* A machine refutation that has not been enacted is in front of a human: it
\* awaits sign-off, or its finding is on an attention card of the workbench.
RefutationIsVisible ==
  \A f \in Findings :
     LET d == Disposition(f)
     IN MachineRefutations(log, Of(f)) # {} /\ ~Dismissed(f) =>
          d.awaiting_signoff \/ d.conflict \/ d.fp_overridden \/ d.reassertion_blocked

\* Execution override, loudly: a finding leaves "false positive" only with a
\* flag raised on it, or because a person or a fresh triage verdict says so.
DismissalEndsLoudly ==
  [][\A f \in Findings : Dismissed(f) /\ ~Dismissed(f)' =>
       \/ FpOverridden(log, Of(f))'
       \/ FpReassertionBlocked(log, Of(f))'
       \/ RefutedAwaitingSignoff(Base, log, Of(f))'
       \/ Conflict(log, Of(f))'
       \/ \E i \in Of(f)' \ Of(f) : log'[i].src = "triage_report"]_log

\* A verification report decides the resolution, whatever tickets say later.
VerificationOutranksTickets ==
  [][\A f \in Findings :
       LET reports == {i \in Of(f) : log[i].src = "verification_report" /\
                                     log[i].resolution # NoValue}
       IN reports # {} /\ Resolution(log, Of(f)) # Resolution(log, Of(f))'
            => \E i \in Of(f)' \ Of(f) : log'[i].src = "verification_report"]_log

-----------------------------------------------------------------------------
(* The abstract specification this one implements.                         *)

Verdicted == [f \in Findings |-> IF Dismissed(f) THEN "dismissed" ELSE "live"]
Proved    == [f \in Findings |-> Decisive(log, Of(f)) # {}]
Accepted  == [f \in Findings |-> \E i \in Of(f) : log[i].auto]
Dissented == [f \in Findings |-> {log[i].who : i \in HumanDismissals(log, Of(f))}]

Promise == INSTANCE Lifecycle
             WITH verdict <- Verdicted, proven <- Proved,
                  accepted <- Accepted, dissent <- Dissented

\* Whatever order the writers' events arrive in, the replay dismisses a
\* finding, and brings it back, only as Lifecycle allows.
LifecycleHolds == Promise!Spec

-----------------------------------------------------------------------------
(* What the documentation says of the log and the code does not keep.      *)

\* "events array must stay chronological"
Chronological ==
  \A i, j \in DOMAIN log : i <= j => log[i].at <= log[j].at

\* "reopen flips a false positive back to confirmed"
ReopenReopens ==
  \A f \in Findings : Of(f) # {} =>
     LET e == log[Latest(log, Of(f))]
     IN e.src = "interactive" /\ e.validity = "confirmed" => ~Dismissed(f)

\* "same engineer re-asserts false_positive -> BLOCKED"
ReassertionIsCounted ==
  \A f \in Findings, h \in Humans :
     /\ Proven(log, Of(f))
     /\ word[f][h].validity = "false_positive"
     /\ word[f][h].at > log[Latest(log, Decisive(log, Of(f)))].at
     => Dismissed(f) \/ FpReassertionBlocked(log, Of(f))

\* "a verdict that changes between runs appends a new event; last-wins-per-
\* axis takes the newer recorded_at"
LastTriageVerdictWins ==
  \A f \in Findings :
     LET w == word[f]["triage_report"].validity
     IN /\ \A i \in Of(f) : log[i].src = "triage_report"
        /\ w \in {"confirmed", "hardening"}
        => Validity(Base, log, Of(f)) = w

\* "latest wins within the highest populated tier"
LatestVerificationWins ==
  \A f \in Findings :
     LET w == word[f]["verification_report"]
     IN w # Nothing /\ w.resolution # NoValue
          => Resolution(log, Of(f)) = w.resolution

\* "class-1 precedence flips validity to confirmed"; but a proof that arrives
\* late, stamped before two dismissals that a later `keep_open` had settled,
\* takes the finding to the execution branch, which counts those two again.
ConfirmNeverDismisses ==
  [][\A f \in Findings : ~Dismissed(f) /\ Dismissed(f)' =>
       \E i \in Of(f)' \ Of(f) : log'[i].validity = "false_positive"]_log
=============================================================================
