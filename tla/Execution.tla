------------------------------ MODULE Execution ------------------------------
(***************************************************************************)
(* The live validation engine: run.py plans the probes of a set of         *)
(* findings (plan.py), execute.py walks the plan step by step against a    *)
(* cluster, and report.py rolls the results up per finding and per chain.  *)
(*                                                                         *)
(* A probe may change the cluster; a mutating one is rolled back at once.  *)
(* The results live in memory until the report is written, the audit log   *)
(* is a file that every run in the directory appends to.  The run may be   *)
(* killed at any step and started over, a command may time out with its    *)
(* change made or not, and the engagement may expire under way.            *)
(*                                                                         *)
(* A command is abstracted to the objects it reaches; a transcript to the  *)
(* verdict it supports, whether it is clean of the error signatures of     *)
(* soundness.py, and whether it shows that the API server rejected it.     *)
(***************************************************************************)
EXTENDS Naturals, Sequences, FiniteSets, SequencesExt

CONSTANTS
  Order,      \* the ingested findings, most severe first
  Chains,     \* the paths find_chains returns, each a sequence of findings
  Worlds,     \* the situations a run may meet (see World)
  Objects,    \* objects a probe may create or change
  Operand,    \* those installed before the run
  OffLimits,  \* those the engagement excludes
  Answers,    \* the transcripts a probe that ran may leave (see Answer)
  MaxRuns,    \* bound on starts in one run directory
  MaxKills    \* bound on kills

Findings == Range(Order)
Verdicts == {"confirmed", "refuted", "inconclusive", "blocked_by_scope", "not_attempted"}
Answer   == [verdict: Verdicts, clean: BOOLEAN]

\* What ingest finds of a finding: why it is not to be probed, if it is
\* not, and its proofs of concept (adapted ones included).
Poc ==
  [verb: {"apply-manifest", "create-cr", "raw"}, cls: {"safe", "mutating", "destructive"},
   target: SUBSET Objects, reach: SUBSET Objects, undo: BOOLEAN]
Finding == [skip: {"", "triage", "surface", "credential"}, pocs: Seq(Poc)]

\* What stays as it is over the runs in one directory: the findings, the
\* objects that admission rejects, --destructive, and install-failure.yaml.
World ==
  [finding: [Findings -> Finding], denied: SUBSET Objects, permit: BOOLEAN, undeployed: BOOLEAN]

ASSUME PathsAssumption ==
  /\ Order \in Seq(Findings)
  /\ Chains \in Seq(Seq(Findings))

ASSUME BoundsAssumption ==
  /\ Worlds \subseteq World
  /\ Operand \subseteq Objects
  /\ OffLimits \subseteq Objects
  /\ Answers \subseteq Answer
  /\ MaxRuns \in Nat
  /\ MaxKills \in Nat

-----------------------------------------------------------------------------
(* plan.py: the steps of a plan depend on the situation alone.             *)

Step(f, verb, why) ==
  [finding |-> f, verb |-> verb, cls |-> "safe", target |-> {}, reach |-> {},
   undo |-> FALSE, needs |-> {}, skip |-> why]

PocStep(f, p) ==
  [Step(f, p.verb, "") EXCEPT !.cls = p.cls, !.target = p.target, !.reach = p.reach,
                              !.undo = p.undo]

\* The replay section: one skipped step for a finding that is not to be
\* probed or has nothing to probe with, else a step per proof of concept.
ReplayOf(f, shape) ==
  IF shape.skip # "" THEN <<Step(f, "noop", shape.skip)>>
  ELSE IF shape.pocs = <<>> THEN <<Step(f, "noop", "no-poc")>>
  ELSE [i \in DOMAIN shape.pocs |-> PocStep(f, shape.pocs[i])]

Replay(w) == FlattenSeq([i \in DOMAIN Order |-> ReplayOf(Order[i], w.finding[Order[i]])])

\* A chain adds a glue step per finding, which waits for the first probe of
\* that finding to be confirmed.
Glue(w, f) ==
  LET probes == {i \in DOMAIN Replay(w) : Replay(w)[i].finding = f /\ Replay(w)[i].verb # "noop"}
      first  == {i \in probes : \A j \in probes : i <= j}
  IN  [Step(f, "glue", "") EXCEPT !.needs = first]

Chained(w) ==
  FlattenSeq([c \in DOMAIN Chains |-> [i \in DOMAIN Chains[c] |-> Glue(w, Chains[c][i])]])

Novel == Step("none", "placeholder", "deferred")

Steps(w) == Replay(w) \o Chained(w) \o <<Novel>>

VARIABLES
  world,     \* the situation
  expired,   \* whether the engagement's last day has passed
  cluster,   \* [Objects -> "absent", "operand" or "probe"]: whose object is there
  phase,     \* where the run stands
  plan,      \* its steps
  skip,      \* why each of them is skipped, "" if it is not
  at,        \* the step it is at
  done,      \* the results so far, by step
  current,   \* the result of the step under way
  audit,     \* validation-audit.jsonl
  report,    \* the report on disk
  runs, kills

vars == <<world, expired, cluster, phase, plan, skip, at, done, current, audit, report, runs, kills>>

-----------------------------------------------------------------------------
(* The pre-check of the plan.                                              *)

\* Scope.is_in_scope of an action on these objects.
InScope(objects) == ~expired /\ objects \cap OffLimits = {}

\* Why a step is skipped, if it is; of a probe, the pre-check looks at the
\* declared target.
PreCheck(s) ==
  IF s.verb \in {"noop", "glue", "placeholder"} THEN s.skip
  ELSE IF s.cls = "destructive" /\ ~world.permit THEN "destructive-not-permitted"
  ELSE IF InScope(s.target) THEN ""
  ELSE "blocked_by_scope"

-----------------------------------------------------------------------------
(* execute.py: the walk.                                                   *)

Result(verdict, ran) ==
  [verdict |-> verdict, clean |-> TRUE, ran |-> ran, rejected |-> FALSE, rollback |-> "none"]

\* Mutant: the gate forgets that the operand never deployed.
GateTranscript(res) ==
  IF res.verdict = "refuted" /\ ~res.clean THEN [res EXCEPT !.verdict = "inconclusive"] ELSE res

\* gate_verdict: a refutation does not stand on an errored transcript, nor
\* where the operand never deployed.
GateVerdict(res) ==
  IF res.verdict = "refuted" /\ (world.undeployed \/ ~res.clean)
    THEN [res EXCEPT !.verdict = "inconclusive"]
    ELSE res

\* Mutant: the audit line is written before the gate.
RecordUngated(res) ==
  /\ done' = [i \in DOMAIN done \cup {at} |-> IF i = at THEN GateVerdict(res) ELSE done[i]]
  /\ audit' = Append(audit, [step |-> at, verdict |-> res.verdict])
  /\ at' = at + 1
  /\ phase' = "stepping"

Record(res) ==
  LET gated == GateVerdict(res)
  IN  /\ done' = [i \in DOMAIN done \cup {at} |-> IF i = at THEN gated ELSE done[i]]
      /\ audit' = Append(audit, [step |-> at, verdict |-> gated.verdict])
      /\ at' = at + 1
      /\ phase' = "stepping"

\* run.py up to the walk.
Begin ==
  /\ phase \in {"stopped", "reported"}
  /\ runs < MaxRuns
  /\ runs' = runs + 1
  /\ plan' = Steps(world)
  /\ skip' = [i \in DOMAIN Steps(world) |-> PreCheck(Steps(world)[i])]
  /\ at' = 1
  /\ done' = <<>>
  /\ phase' = "stepping"
  /\ UNCHANGED <<world, expired, cluster, current, audit, report, kills>>

AtStep == phase = "stepping" /\ at <= Len(plan)
Here   == plan[at]
Idle   == UNCHANGED <<world, expired, cluster, plan, skip, current, report, runs, kills>>

PreSkipped ==
  /\ AtStep /\ skip[at] # "" /\ Here.verb # "placeholder"
  /\ Record(Result(IF skip[at] = "blocked_by_scope" THEN "blocked_by_scope"
                                                     ELSE "not_attempted", FALSE))
  /\ Idle

\* The second pass over the recon: no inventory it can parse yields a probe.
NovelPass ==
  /\ AtStep /\ Here.verb = "placeholder"
  /\ at' = at + 1
  /\ Idle /\ UNCHANGED <<phase, done, audit>>

Runnable == AtStep /\ skip[at] = "" /\ Here.verb # "placeholder"
Met      == \A i \in Here.needs : i \in DOMAIN done /\ done[i].verdict = "confirmed"

Unmet ==
  /\ Runnable /\ ~Met
  /\ Record(Result("not_attempted", FALSE))
  /\ Idle

\* Mutant: only the declared target is checked.
DeclaredActions(s) == s.target

\* _step_actions: the declared target and whatever the argv really reaches.
Actions(s) == s.target \cup s.reach

OutOfScope ==
  /\ Runnable /\ Met /\ ~InScope(Actions(Here))
  /\ Record(Result("blocked_by_scope", FALSE))
  /\ Idle

Permitted ==
  /\ Runnable /\ Met /\ InScope(Actions(Here))
  /\ Here.cls = "destructive" => world.permit

-----------------------------------------------------------------------------
(* The adapter: execute and rollback.                                      *)

\* What is on the cluster after a command did its work on these objects:  a
\* mutating one makes those that are not there (admission turns some away, an
\* apply changes and a create leaves what is there), a destructive one
\* deletes, a safe one reads.
Made(objects) ==
  [o \in Objects |-> IF o \in objects \ world.denied /\ cluster[o] = "absent"
                       THEN "probe" ELSE cluster[o]]
Gone(objects) == [o \in Objects |-> IF o \in objects THEN "absent" ELSE cluster[o]]

Effect(s, objects) ==
  IF s.cls = "mutating" THEN Made(objects)
  ELSE IF s.cls = "destructive" THEN Gone(objects)
  ELSE cluster

AfterRun(s) == IF s.cls = "mutating" THEN "undo" ELSE "record"

\* A verb that is not executed: glue.
Connect ==
  /\ Permitted /\ Here.verb = "glue"
  /\ Record(Result("not_attempted", FALSE))
  /\ Idle

\* The command returns.
Execute ==
  /\ Permitted /\ Here.verb # "glue"
  /\ \E a \in Answers :
       current' = [verdict |-> a.verdict, clean |-> a.clean, ran |-> TRUE,
                   rejected |-> Here.reach \cap world.denied # {}, rollback |-> "none"]
  /\ cluster' = Effect(Here, Here.reach)
  /\ phase' = AfterRun(Here)
  /\ UNCHANGED <<world, expired, plan, skip, at, done, audit, report, runs, kills>>

\* It times out, or the adapter raises after it: some of its work is done,
\* and no rejection is on the transcript.
ExecuteFails ==
  /\ Permitted /\ Here.verb # "glue"
  /\ \E some \in SUBSET Here.reach : cluster' = Effect(Here, some)
  /\ current' = Result("inconclusive", TRUE)
  /\ phase' = AfterRun(Here)
  /\ UNCHANGED <<world, expired, plan, skip, at, done, audit, report, runs, kills>>

\* Mutant: an inconclusive apply is taken for one that made nothing.
SkipsInconclusive(s) == s.verb # "raw" /\ (current.rejected \/ current.verdict = "inconclusive")

\* K8sAdapter.rollback deletes what the manifest names unless the apply was
\* rejected; any other verb runs the step's own rollback command.
Skips(s)  == s.verb # "raw" /\ current.rejected
CanUndo(s) == s.verb # "raw" \/ s.undo

RollBack ==
  /\ phase = "undo"
  /\ \/ /\ Skips(Here)
        /\ current' = [current EXCEPT !.rollback = "done"]
        /\ UNCHANGED cluster
     \/ /\ ~Skips(Here) /\ CanUndo(Here)
        /\ current' = [current EXCEPT !.rollback = "done"]
        /\ cluster' = Gone(Here.reach)
     \/ /\ ~Skips(Here)
        /\ current' = [current EXCEPT !.rollback = "failed"]
        /\ \E some \in IF CanUndo(Here) THEN SUBSET Here.reach ELSE {{}} : cluster' = Gone(some)
  /\ phase' = "record"
  /\ UNCHANGED <<world, expired, plan, skip, at, done, audit, report, runs, kills>>

RecordStep ==
  /\ phase = "record"
  /\ Record(current)
  /\ UNCHANGED <<world, expired, cluster, plan, skip, current, report, runs, kills>>

-----------------------------------------------------------------------------
(* report.py                                                               *)

Precedence ==
  [confirmed |-> 0, refuted |-> 1, inconclusive |-> 2, blocked_by_scope |-> 3, not_attempted |-> 4]

StepsOf(f, verbs) == {i \in DOMAIN done : plan[i].finding = f /\ plan[i].verb \notin verbs}

\* The verdict of the primary steps: the one of least precedence.
RollUp(f) ==
  LET found == {done[i].verdict : i \in StepsOf(f, {"noop", "glue"})} \cup {"not_attempted"}
  IN  CHOOSE v \in found : \A w \in found : Precedence[v] <= Precedence[w]

\* flag_validated_finding: a refutation all of whose probes are unsound falls.
Backstop(f, v) ==
  IF v = "refuted" /\ \A i \in StepsOf(f, {"glue"}) : done[i].verdict = "refuted" => ~done[i].clean
    THEN "inconclusive"
    ELSE v

\* The steps along a chain, each of them once, and those that were tried.
LinksOf(c) == UNION {StepsOf(f, {"glue"}) : f \in Range(Chains[c])}
TriedOf(c) == {i \in LinksOf(c) : done[i].verdict # "not_attempted"}

\* Along the path, and of one finding in the order of the plan.
Sooner(c, i, j) ==
  IF plan[i].finding = plan[j].finding THEN i < j
  ELSE \E k \in DOMAIN Chains[c] : /\ Chains[c][k] = plan[i].finding
                                   /\ \A l \in 1 .. k : Chains[c][l] # plan[j].finding

\* Mutant: the verdict of the last link that was tried.
LastVerdict(c) ==
  IF Cardinality(LinksOf(c)) < 2 THEN "none"
  ELSE IF TriedOf(c) = {} THEN "not_attempted"
  ELSE done[CHOOSE i \in TriedOf(c) : \A j \in TriedOf(c) : j = i \/ Sooner(c, j, i)].verdict

\* A chain is confirmed as soon as one of its links is; short of that it has
\* the verdict of the first link that was tried, and fewer than two links
\* make no chain.
ChainVerdict(c) ==
  IF Cardinality(LinksOf(c)) < 2 THEN "none"
  ELSE IF TriedOf(c) = {} THEN "not_attempted"
  ELSE IF \E i \in TriedOf(c) : done[i].verdict = "confirmed" THEN "confirmed"
  ELSE done[CHOOSE i \in TriedOf(c) : \A j \in TriedOf(c) : j = i \/ Sooner(c, i, j)].verdict

NoReport == [verdicts |-> <<>>, chains |-> <<>>, steps |-> <<>>, sealed |-> 0]

WriteReport ==
  /\ phase = "stepping" /\ at > Len(plan)
  /\ report' = [verdicts |-> [f \in Findings |-> Backstop(f, RollUp(f))],
                chains   |-> [c \in DOMAIN Chains |-> ChainVerdict(c)],
                steps    |-> done,
                sealed   |-> Len(audit)]
  /\ phase' = "reported"
  /\ UNCHANGED <<world, expired, cluster, plan, skip, at, done, current, audit, runs, kills>>

-----------------------------------------------------------------------------
(* The environment.                                                        *)

Expire ==
  /\ ~expired
  /\ expired' = TRUE
  /\ UNCHANGED <<world, cluster, phase, plan, skip, at, done, current, audit, report, runs, kills>>

Kill ==
  /\ phase \in {"stepping", "undo", "record"}
  /\ kills < MaxKills
  /\ kills' = kills + 1
  /\ phase' = "stopped"
  /\ UNCHANGED <<world, expired, cluster, plan, skip, at, done, current, audit, report, runs>>

Init ==
  /\ world \in Worlds
  /\ expired = FALSE
  /\ cluster = [o \in Objects |-> IF o \in Operand THEN "operand" ELSE "absent"]
  /\ phase = "stopped"
  /\ plan = <<>> /\ skip = <<>> /\ at = 1 /\ done = <<>>
  /\ current = Result("not_attempted", FALSE)
  /\ audit = <<>> /\ report = NoReport
  /\ runs = 0 /\ kills = 0

Next ==
  \/ Begin \/ PreSkipped \/ NovelPass \/ Unmet \/ OutOfScope \/ Connect
  \/ Execute \/ ExecuteFails \/ RollBack \/ RecordStep \/ WriteReport
  \/ Expire \/ Kill

Spec == Init /\ [][Next]_vars

-----------------------------------------------------------------------------
(* Properties.                                                             *)

StepResult ==
  [verdict: Verdicts, clean: BOOLEAN, ran: BOOLEAN, rejected: BOOLEAN,
   rollback: {"none", "done", "failed"}]

Results(steps) == DOMAIN steps \subseteq 1 .. Len(plan) /\ \A i \in DOMAIN steps : steps[i] \in StepResult

\* Every variable has the shape the code gives it: the results are those of
\* steps behind the pointer of execute.run, and while one is under way the
\* pointer is on a step of the plan.
TypeOK ==
  /\ world \in Worlds /\ expired \in BOOLEAN
  /\ cluster \in [Objects -> {"absent", "operand", "probe"}]
  /\ phase \in {"stopped", "reported", "stepping", "undo", "record"}
  /\ at \in 1 .. Len(plan) + 1
  /\ phase \in {"undo", "record"} => at <= Len(plan)
  /\ DOMAIN skip = DOMAIN plan
  /\ Results(done) /\ \A i \in DOMAIN done : i < at
  /\ current \in StepResult
  /\ report.sealed \in 0 .. Len(audit) /\ Results(report.steps)
  /\ runs \in 0 .. MaxRuns /\ kills \in 0 .. MaxKills

\* What a finished run leaves on the cluster it can name: an object a probe
\* made, in this run or in one that was killed before it, is still there only
\* if a step of the finished run that makes it reports that its rollback
\* failed or that it was not run this time (execute.run, K8sAdapter.rollback).
LeftoversAreNamed ==
  phase = "reported" =>
    \A o \in Objects : cluster[o] = "probe" =>
      \E i \in DOMAIN done : /\ o \in plan[i].reach
                             /\ done[i].rollback = "failed" \/ ~done[i].ran

\* The real reach of a command decides, not the target its step declares: no
\* object the engagement excludes is ever created, changed or deleted, by a
\* probe or by its rollback (_step_actions, Scope.is_in_scope).
OffLimitsUntouched ==
  \A o \in OffLimits : cluster[o] = IF o \in Operand THEN "operand" ELSE "absent"

Supports(i, f, verdict) ==
  /\ plan[i].finding = f /\ report.steps[i].ran /\ report.steps[i].verdict = verdict
  /\ verdict = "refuted" => report.steps[i].clean

\* A finding is reported confirmed or refuted only on a step of its own that
\* ran and said so, a refutation moreover on a clean transcript against an
\* operand that was deployed (gate_verdict, the roll-up and its backstop).
VerdictsRestOnProbes ==
  \A f \in DOMAIN report.verdicts : report.verdicts[f] \in {"confirmed", "refuted"} =>
    /\ \E i \in DOMAIN report.steps : Supports(i, f, report.verdicts[f])
    /\ report.verdicts[f] = "refuted" => ~world.undeployed

\* A chain and its findings are rolled up by different rules, and agree: a
\* chain is confirmed exactly if it has two links and one of its findings is
\* confirmed (the chains section of build_validation_json).
ChainsFollowFindings ==
  \A c \in DOMAIN report.chains : report.chains[c] = "confirmed" <=>
    /\ report.chains[c] # "none"
    /\ \E f \in Range(Chains[c]) : report.verdicts[f] = "confirmed"

\* Every result in the report stands in the part of the audit log the report
\* is sealed over, with the verdict the report gives it (AuditLog, record).
ReportIsAudited ==
  \A i \in DOMAIN report.steps :
    \E k \in 1 .. report.sealed : audit[k] = [step |-> i, verdict |-> report.steps[i].verdict]

\* K8sAdapter.rollback says it does not "nuke a pre-existing object of the
\* same name": without --destructive, what was installed before the run is
\* still there after it.
OperandSurvives == ~world.permit => \A o \in Operand : cluster[o] # "absent"

=============================================================================
